---------------------------- MODULE Spec2Model ----------------------------
(***************************************************************************)
(* The front end of the fang compiler: the byte-driven tokenizer           *)
(* (src/src/lexer.rs), its token stream, and the recursive-descent parser  *)
(* (src/src/parser.rs), driven as in src/src/frontend.rs.                  *)
(*                                                                         *)
(* Source bytes are their ASCII codes, texts are sequences of bytes.       *)
(* Option<T> is a sequence of length 0 (None) or 1 (Some).                 *)
(***************************************************************************)
EXTENDS Integers, Sequences, FiniteSets, TLC

VARIABLES
    state,       \* Tokenizer.state
    tokens,      \* Tokenizer.tokens
    identifier,  \* Tokenizer.identifier
    number,      \* Tokenizer.number
    string,      \* Tokenizer.string
    scanned,     \* history: the texts passed to scan() since the last extract()
    fed,         \* history: number of source bytes passed to scan() so far
    log,         \* history: one entry per feed() call of the most recent scan()
    stream,      \* Option<Stream>: the stream extract() returned, held by the
                 \* caller until its next scan()
    source,      \* history: the texts whose scans built `stream`
    program,     \* Option<outcome of parse_program> on `stream`
    pc,          \* position of process_string (frontend.rs), "idle" outside it
    input,       \* the argument of process_string
    call,        \* history: the last operation a caller made on `stream`
    reachedEnd,  \* history: the cursor of `stream` has been on EndOfProgram
    turns        \* what parse_statement gives at each cursor of the stream;
                 \* worked out when the parser is built, read by its loop

tokenizerVars == <<state, tokens, identifier, number, string>>
historyVars == <<scanned, fed, log, source>>
frontVars == <<pc, input>>
callVars == <<call, reachedEnd>>
vars == <<state, tokens, identifier, number, string, scanned, fed, log,
          stream, source, program, pc, input, call, reachedEnd, turns>>

----------------------------------------------------------------------------
(* Bytes.                                                                  *)

\* The byte literals of the sources and of the sample texts: character, code.
AsciiTable ==
    {<<"a", 97>>, <<"b", 98>>, <<"c", 99>>, <<"d", 100>>, <<"e", 101>>,
     <<"f", 102>>, <<"g", 103>>, <<"h", 104>>, <<"i", 105>>, <<"j", 106>>,
     <<"k", 107>>, <<"l", 108>>, <<"m", 109>>, <<"n", 110>>, <<"o", 111>>,
     <<"p", 112>>, <<"q", 113>>, <<"r", 114>>, <<"s", 115>>, <<"t", 116>>,
     <<"u", 117>>, <<"v", 118>>, <<"w", 119>>, <<"x", 120>>, <<"y", 121>>,
     <<"z", 122>>, <<"A", 65>>, <<"Z", 90>>, <<"_", 95>>, <<"0", 48>>,
     <<"1", 49>>, <<"2", 50>>, <<"3", 51>>, <<"4", 52>>, <<"5", 53>>,
     <<"6", 54>>, <<"7", 55>>, <<"8", 56>>, <<"9", 57>>, <<"\"", 34>>,
     <<",", 44>>, <<"=", 61>>, <<"!", 33>>, <<":", 58>>, <<"+", 43>>,
     <<"-", 45>>, <<"*", 42>>, <<"/", 47>>, <<"(", 40>>, <<")", 41>>,
     <<"{", 123>>, <<"}", 125>>, <<";", 59>>, <<">", 62>>, <<" ", 32>>,
     <<"\r", 13>>, <<"\n", 10>>, <<"\t", 9>>, <<"#", 35>>, <<"\\", 92>>,
     <<"~", 126>>, <<"DEL", 127>>}

Ascii == [c \in {p[1] : p \in AsciiTable} |->
             (CHOOSE p \in AsciiTable : p[1] = c)[2]]

\* b'c'
B(c) == Ascii[c]

\* "..." as bytes, from its characters
T(chars) == [i \in 1..Len(chars) |-> Ascii[chars[i]]]

None == <<>>
Some(x) == <<x>>

is_identifier_first_byte(byte) ==
    \/ (byte >= B("a") /\ byte <= B("z"))
    \/ (byte >= B("A") /\ byte <= B("Z"))
    \/ byte = B("_")

is_identifier_other_byte(byte) ==
    \/ (byte >= B("a") /\ byte <= B("z"))
    \/ (byte >= B("A") /\ byte <= B("Z"))
    \/ (byte >= B("0") /\ byte <= B("9"))
    \/ byte = B("_")

is_number_byte(byte) == byte >= B("0") /\ byte <= B("9")

is_space_byte(byte) == byte = B(" ") \/ byte = B("\r") \/ byte = B("\n")

is_ascii_printable_byte(byte) == byte >= 32 /\ byte <= 126

----------------------------------------------------------------------------
(* isize.  Tokenizer.number and the payload of Token::Number are isize: a  *)
(* 64-bit two's complement integer on a 64-bit target.  It is kept as its  *)
(* four 16-bit words, least significant first.  `number *= 10; number +=   *)
(* value` wraps modulo 2^64 in a build without overflow checks and panics  *)
(* in a build with them.                                                   *)

WordBase == 65536
WordCount == 4

\* the isize of a small natural number
Isize(n) == <<n % WordBase, n \div WordBase, 0, 0>>

\* words * 10 + carry, on as many words as given
RECURSIVE MulTenAdd(_, _)
MulTenAdd(words, carry) ==
    IF words = <<>> THEN <<>>
    ELSE LET x == (Head(words) * 10) + carry IN
         <<x % WordBase>> \o MulTenAdd(Tail(words), x \div WordBase)

IsNegative(num) == num[WordCount] >= WordBase \div 2

\* number * 10 + value of a build without overflow checks
wrapping_mul_add(num, value) ==
    SubSeq(MulTenAdd(num, value), 1, WordCount)

\* number * 10 + value leaves the range of isize (number is not negative)
mul_add_overflows(num, value) ==
    LET wide == MulTenAdd(num \o <<0>>, value) IN
    wide[WordCount + 1] # 0 \/ IsNegative(SubSeq(wide, 1, WordCount))

----------------------------------------------------------------------------
(* Tokens.                                                                 *)

Tok(kind) == [kind |-> kind]
TokIdentifier(text) == [kind |-> "Identifier", text |-> text]
TokNumber(num) == [kind |-> "Number", num |-> num]
TokString(str) == [kind |-> "String", str |-> str]

EndOfProgram == Tok("EndOfProgram")

\* token equality that also compares the payloads
TokenEq_WithPayload(a, b) == a = b

\* impl PartialEq for Token: equal iff the same variant, payloads ignored
TokenEq(a, b) == a.kind = b.kind

\* the keyword comparison without its `return` arm
KeywordToken_NoReturn(text) ==
    IF text = T(<<"v", "a", "r">>) THEN Tok("Variable")
    ELSE IF text = T(<<"f", "u", "n", "c">>) THEN Tok("Function")
    ELSE TokIdentifier(text)

\* the keyword comparison that ends an identifier run
KeywordToken(text) ==
    IF text = T(<<"v", "a", "r">>) THEN Tok("Variable")
    ELSE IF text = T(<<"f", "u", "n", "c">>) THEN Tok("Function")
    ELSE IF text = T(<<"r", "e", "t", "u", "r", "n">>) THEN Tok("Return")
    ELSE TokIdentifier(text)

----------------------------------------------------------------------------
(* Tokenizer.                                                              *)

\* Tokenizer::new
NewTokenizer ==
    [state |-> "Start", tokens |-> <<>>, identifier |-> <<>>, number |-> Isize(0),
     string |-> <<>>]

Step(t, result) == [t |-> t, result |-> result]
Push(t, token) == [t EXCEPT !.tokens = Append(@, token)]
Goto(t, s) == [t EXCEPT !.state = s]

FsmStart(t, byte) ==
    IF byte = None THEN Step(t, "Done")
    ELSE LET b == byte[1] IN
    IF is_identifier_first_byte(b) THEN
        Step([t EXCEPT !.identifier = <<b>>, !.state = "HaveIdentifierChar"],
             "Continue")
    ELSE IF is_number_byte(b) THEN
        Step([t EXCEPT !.number = Isize(b - B("0")), !.state = "HaveNumericChar"],
             "Continue")
    ELSE IF b = B("\"") THEN
        Step([t EXCEPT !.string = <<>>, !.state = "HaveStringStart"], "Continue")
    ELSE IF b = B(",") THEN Step(Push(t, Tok("Comma")), "Continue")
    ELSE IF b = B("=") THEN Step(Goto(t, "HaveCharEqual"), "Continue")
    ELSE IF b = B("!") THEN Step(Goto(t, "HaveCharExclamationMark"), "Continue")
    ELSE IF b = B(":") THEN Step(Push(t, Tok("VariableTypeIndicator")), "Continue")
    ELSE IF b = B("+") THEN Step(Push(t, Tok("Add")), "Continue")
    ELSE IF b = B("-") THEN Step(Goto(t, "HaveCharHyphen"), "Continue")
    ELSE IF b = B("*") THEN Step(Push(t, Tok("Times")), "Continue")
    ELSE IF b = B("/") THEN Step(Goto(t, "HaveCharForwardSlash"), "Continue")
    ELSE IF b = B("(") THEN Step(Push(t, Tok("LeftRoundBracket")), "Continue")
    ELSE IF b = B(")") THEN Step(Push(t, Tok("RightRoundBracket")), "Continue")
    ELSE IF b = B("{") THEN Step(Push(t, Tok("LeftCurlyBracket")), "Continue")
    ELSE IF b = B("}") THEN Step(Push(t, Tok("RightCurlyBracket")), "Continue")
    ELSE IF b = B(";") THEN Step(Push(t, Tok("EndOfStatement")), "Continue")
    ELSE IF is_space_byte(b) THEN Step(t, "Continue")
    ELSE Step(t, "InvalidByte")

\* `=` after `=` handled like any other byte: Assign, and the byte again
FsmHaveCharEqual_NoPair(t, byte) ==
    IF byte = None THEN Step(Push(t, Tok("Assign")), "Done")
    ELSE Step(Goto(Push(t, Tok("Assign")), "Start"), "Again")

FsmHaveCharEqual(t, byte) ==
    IF byte = None THEN Step(Push(t, Tok("Assign")), "Done")
    ELSE IF byte[1] = B("=") THEN
        Step(Goto(Push(t, Tok("Equal")), "Start"), "Continue")
    ELSE Step(Goto(Push(t, Tok("Assign")), "Start"), "Again")

\* a byte other than `=` after `!` answered Continue
FsmHaveCharExclamationMark_Lenient(t, byte) ==
    IF byte = None THEN Step(t, "InvalidByte")
    ELSE IF byte[1] = B("=") THEN
        Step(Goto(Push(t, Tok("NotEqual")), "Start"), "Continue")
    ELSE Step(Goto(t, "Start"), "Continue")

FsmHaveCharExclamationMark(t, byte) ==
    IF byte = None THEN Step(t, "InvalidByte")
    ELSE IF byte[1] = B("=") THEN
        Step(Goto(Push(t, Tok("NotEqual")), "Start"), "Continue")
    ELSE Step(Goto(t, "Start"), "InvalidByte")

\* the end of input after `-` answered without the push of Minus
FsmHaveCharHyphen_NoFlush(t, byte) ==
    IF byte = None THEN Step(t, "Done")
    ELSE IF byte[1] = B(">") THEN
        Step(Goto(Push(t, Tok("ReturnTypeIndicator")), "Start"), "Continue")
    ELSE Step(Goto(Push(t, Tok("Minus")), "Start"), "Again")

FsmHaveCharHyphen(t, byte) ==
    IF byte = None THEN Step(Push(t, Tok("Minus")), "Done")
    ELSE IF byte[1] = B(">") THEN
        Step(Goto(Push(t, Tok("ReturnTypeIndicator")), "Start"), "Continue")
    ELSE Step(Goto(Push(t, Tok("Minus")), "Start"), "Again")

FsmHaveIdentifierChar(t, byte) ==
    IF byte = None THEN Step(t, "Done")
    ELSE IF is_identifier_other_byte(byte[1]) THEN
        Step([t EXCEPT !.identifier = Append(@, byte[1])], "Continue")
    ELSE Step(Goto(Push(t, KeywordToken(t.identifier)), "Start"), "Again")

\* the end of a digit run answered Again with the FSM left in HaveNumericChar
FsmHaveNumericChar_NoStart(t, byte) ==
    IF byte = None THEN Step(t, "Done")
    ELSE IF is_number_byte(byte[1]) THEN
        Step([t EXCEPT !.number = wrapping_mul_add(@, byte[1] - B("0"))], "Continue")
    ELSE Step(Push(t, TokNumber(t.number)), "Again")

FsmHaveNumericChar(t, byte) ==
    IF byte = None THEN Step(t, "Done")
    ELSE IF is_number_byte(byte[1]) THEN
        Step([t EXCEPT !.number = wrapping_mul_add(@, byte[1] - B("0"))], "Continue")
    ELSE Step(Goto(Push(t, TokNumber(t.number)), "Start"), "Again")

FsmHaveStringStart(t, byte) ==
    IF byte = None THEN Step(t, "Done")
    ELSE IF byte[1] = B("\"") THEN
        Step(Goto(Push(t, TokString(t.string)), "Start"), "Continue")
    ELSE IF \/ byte[1] = B("\r")
            \/ byte[1] = B("\n")
            \/ is_ascii_printable_byte(byte[1]) THEN
        Step([t EXCEPT !.string = Append(@, byte[1])], "Continue")
    ELSE Step(t, "InvalidByte")

FsmHaveCharForwardSlash(t, byte) ==
    IF byte = None THEN Step(Push(t, Tok("Divide")), "Done")
    ELSE IF byte[1] = B("/") THEN
        Step(Goto(t, "HaveSingleLineCommentStart"), "Continue")
    ELSE IF byte[1] = B("*") THEN
        Step(Goto(t, "HaveMultiLineCommentStart"), "Continue")
    ELSE Step(Goto(Push(t, Tok("Divide")), "Start"), "Again")

FsmHaveSingleLineCommentStart(t, byte) ==
    IF byte = None THEN Step(t, "Done")
    ELSE IF byte[1] = B("\r") \/ byte[1] = B("\n") THEN
        Step(Goto(t, "Start"), "Continue")
    ELSE Step(t, "Continue")

FsmHaveMultiLineCommentStart(t, byte) ==
    IF byte = None THEN Step(t, "Done")
    ELSE IF byte[1] = B("*") THEN
        Step(Goto(t, "HaveMultiLineCommentEndCharAsterisk"), "Continue")
    ELSE Step(t, "Continue")

FsmHaveMultiLineCommentEndCharAsterisk(t, byte) ==
    IF byte = None THEN Step(t, "Done")
    ELSE IF byte[1] = B("/") THEN Step(Goto(t, "Start"), "Continue")
    ELSE Step(Goto(t, "HaveMultiLineCommentStart"), "Continue")

\* fsm_proc: one step of the FSM on Some(byte) or on None (end of input)
fsm_proc(t, byte) ==
    CASE t.state = "Start" -> FsmStart(t, byte)
      [] t.state = "HaveCharEqual" -> FsmHaveCharEqual(t, byte)
      [] t.state = "HaveCharExclamationMark" -> FsmHaveCharExclamationMark(t, byte)
      [] t.state = "HaveCharHyphen" -> FsmHaveCharHyphen(t, byte)
      [] t.state = "HaveCharForwardSlash" -> FsmHaveCharForwardSlash(t, byte)
      [] t.state = "HaveIdentifierChar" -> FsmHaveIdentifierChar(t, byte)
      [] t.state = "HaveNumericChar" -> FsmHaveNumericChar(t, byte)
      [] t.state = "HaveStringStart" -> FsmHaveStringStart(t, byte)
      [] t.state = "HaveSingleLineCommentStart" ->
            FsmHaveSingleLineCommentStart(t, byte)
      [] t.state = "HaveMultiLineCommentStart" ->
            FsmHaveMultiLineCommentStart(t, byte)
      [] t.state = "HaveMultiLineCommentEndCharAsterisk" ->
            FsmHaveMultiLineCommentEndCharAsterisk(t, byte)

\* Tokenizer::feed: repeat fsm_proc on the same byte while it answers Again.
\* `steps` counts the fsm_proc calls made.
\* feed() that does not feed the byte again after the result Again
FeedLoop_NoAgain(t, byte, steps) ==
    LET r == fsm_proc(t, byte) IN
    [t |-> r.t,
     result |-> IF r.result = "Again" THEN "Continue" ELSE r.result,
     steps |-> steps + 1]

RECURSIVE FeedLoop(_, _, _)
FeedLoop(t, byte, steps) ==
    LET r == fsm_proc(t, byte) IN
    IF r.result = "Again" THEN FeedLoop(r.t, byte, steps + 1)
    ELSE [t |-> r.t, result |-> r.result, steps |-> steps + 1]

feed(t, byte) == FeedLoop(t, byte, 0)

\* What one feed() call of scan() did: the byte, the FSM state before and
\* after, the result scan() drops, and the tokens emitted so far.
\* this byte takes Tokenizer.number out of the range of isize
Overflows(t, byte) ==
    /\ t.state = "HaveNumericChar"
    /\ is_number_byte(byte)
    /\ mul_add_overflows(t.number, byte - B("0"))

LogEntry(t, byte, f) ==
    [byte |-> byte, before |-> t.state, after |-> f.t.state,
     result |-> f.result, steps |-> f.steps, ntokens |-> Len(f.t.tokens),
     overflow |-> byte # None /\ Overflows(t, byte[1])]

\* Tokenizer::scan after the feed() calls logged in lg: feed every byte
\* whatever the result of the feed before, then the end of input, then push
\* EndOfProgram.  With overflow checks the scan panics at the byte that
\* takes the number out of range.
RECURSIVE ScanFrom(_, _, _, _)
ScanFrom(t, text, lg, overflow_checks) ==
    LET index == Len(lg) + 1 IN
    IF index <= Len(text) THEN
        IF overflow_checks /\ Overflows(t, text[index])
        THEN [t |-> t, log |-> lg, overflowed |-> TRUE, panicked |-> TRUE]
        ELSE LET f == feed(t, Some(text[index])) IN
             ScanFrom(f.t, text, Append(lg, LogEntry(t, Some(text[index]), f)),
                      overflow_checks)
    ELSE
        LET f == feed(t, None) IN
        [t |-> Push(f.t, EndOfProgram),
         log |-> Append(lg, LogEntry(t, None, f)),
         overflowed |-> \E i \in 1..Len(lg) : lg[i].overflow,
         panicked |-> FALSE]

scan(t, text, overflow_checks) == ScanFrom(t, text, <<>>, overflow_checks)

\* Stream::new
NewStream(toks) == [tokens |-> toks, current |-> 0]

\* Tokenizer::extract: the tokens as a stream; state, tokens, identifier and
\* number are reset, string is left as it is.
\* extract() that forgets to put the FSM back in Start
extract_KeepsState(t) ==
    [t |-> [t EXCEPT !.tokens = <<>>, !.identifier = <<>>, !.number = Isize(0)],
     stream |-> NewStream(t.tokens)]

extract(t) ==
    [t |-> [t EXCEPT !.state = "Start", !.tokens = <<>>, !.identifier = <<>>,
                     !.number = Isize(0)],
     stream |-> NewStream(t.tokens)]

Self == [state |-> state, tokens |-> tokens, identifier |-> identifier,
         number |-> number, string |-> string]

SetSelfInit ==
    /\ state = NewTokenizer.state
    /\ tokens = NewTokenizer.tokens
    /\ identifier = NewTokenizer.identifier
    /\ number = NewTokenizer.number
    /\ string = NewTokenizer.string

SetSelf(t) ==
    /\ state' = t.state
    /\ tokens' = t.tokens
    /\ identifier' = t.identifier
    /\ number' = t.number
    /\ string' = t.string

----------------------------------------------------------------------------
(* Token stream.                                                           *)

\* Stream::peek
peek(s) ==
    IF s.current < Len(s.tokens) THEN Some(s.tokens[s.current + 1]) ELSE None

\* consume() that returns the token and leaves the cursor where it is
consume_NoAdvance(s) ==
    IF s.current < Len(s.tokens)
    THEN [s |-> s, token |-> Some(s.tokens[s.current + 1])]
    ELSE [s |-> s, token |-> None]

\* consume() that advances the cursor also past the end
consume_Unchecked(s) ==
    [s |-> [s EXCEPT !.current = @ + 1],
     token |-> IF s.current < Len(s.tokens)
               THEN Some(s.tokens[s.current + 1]) ELSE None]

\* Stream::consume: the token at the cursor and the stream advanced by one,
\* or None and the stream as it is
consume(s) ==
    IF s.current < Len(s.tokens)
    THEN [s |-> [s EXCEPT !.current = @ + 1],
          token |-> Some(s.tokens[s.current + 1])]
    ELSE [s |-> s, token |-> None]

\* Option<&Token> == Some(&expected), with Token's PartialEq
OptionTokenEq(opt, expected) == opt # None /\ TokenEq(opt[1], expected)

\* Stream::match_token
match_token(s, expected) == OptionTokenEq(peek(s), expected)

\* the variant of the token under the cursor, "None" past the end
PeekKind(s) == IF peek(s) = None THEN "None" ELSE peek(s)[1].kind

\* the record of a call on the stream: the operation, its argument, the
\* Option<Token> or the bool it returned, and the stream before the call
NoCall ==
    [op |-> "none", arg |-> None, token |-> None, matched |-> FALSE,
     before |-> None]

----------------------------------------------------------------------------
(* AST.                                                                    *)

ExprIdentifier(name) == [expr |-> "Identifier", name |-> name]
ExprNumber(num) == [expr |-> "Number", number |-> num]
ExprString(str) == [expr |-> "String", string |-> str]
BinaryOperation(operator, operand_left, operand_right) ==
    [expr |-> "BinaryOperation", operator |-> operator,
     operand_left |-> operand_left, operand_right |-> operand_right]
FunctionCall(callee_name, arguments) ==
    [expr |-> "FunctionCall", callee_name |-> callee_name,
     arguments |-> arguments]

Parameter(name, type) == [name |-> name, type |-> type]

VariableDefinition(ident, type, value) ==
    [stmt |-> "VariableDefinition", identifier |-> ident, type |-> type,
     value |-> value]
FunctionDefinition(callee_name, parameters, return_type, statements) ==
    [stmt |-> "FunctionDefinition", callee_name |-> callee_name,
     parameters |-> parameters, return_type |-> return_type,
     statements |-> statements]
Return(expression) == [stmt |-> "Return", expression |-> expression]
ExpressionStatement(expression) ==
    [stmt |-> "Expression", expression |-> expression]
Block(statements) == [stmt |-> "Block", statements |-> statements]

Program(statements) == [statements |-> statements]

----------------------------------------------------------------------------
(* Parser.  Every parse function takes the stream and answers either       *)
(* Ok(stream after, value) or Panic(stream at the panic, message).         *)

Ok(s, val) == [ok |-> TRUE, s |-> s, val |-> val]
Panic(s, msg) == [ok |-> FALSE, s |-> s, err |-> msg]

\* match self.stream.consume() { Some(Token::<kind>..) => .., _ => panic!(msg) }
ConsumeExpect(s, kind, msg) ==
    LET c == consume(s) IN
    IF c.token # None /\ c.token[1].kind = kind
    THEN Ok(c.s, c.token[1])
    ELSE Panic(c.s, msg)

\* a call of the parse function, or of the loop, named fn
RECURSIVE Call(_, _, _)


\* parse_number
parse_number(s) ==
    LET r == ConsumeExpect(s, "Number", "Expected number!") IN
    IF r.ok THEN Ok(r.s, ExprNumber(r.val.num)) ELSE r

\* parse_string
parse_string(s) ==
    LET r == ConsumeExpect(s, "String", "Expected string!") IN
    IF r.ok THEN Ok(r.s, ExprString(r.val.str)) ELSE r

\* parse_grouped_expression
parse_grouped_expression(s) ==
    LET r == Call("parse_expression", consume(s).s, <<>>) IN
    IF ~r.ok THEN r
    ELSE LET c == ConsumeExpect(r.s, "RightRoundBracket", "Expected \")\"!") IN
         IF c.ok THEN Ok(c.s, r.val) ELSE c

\* the argument loop ended by a `)` after a comma as well
CallArgumentsLoop_TrailingComma(s, arguments) ==
    IF arguments # <<>> /\ PeekKind(s) = "RightRoundBracket"
    THEN Ok(consume(s).s, arguments)
    ELSE LET r == Call("parse_expression", s, <<>>) IN
         IF ~r.ok THEN r
         ELSE LET args == Append(arguments, r.val) IN
              IF PeekKind(r.s) = "Comma"
              THEN Call("CallArgumentsLoop", consume(r.s).s, args)
              ELSE IF PeekKind(r.s) = "RightRoundBracket"
                   THEN Ok(consume(r.s).s, args)
              ELSE Panic(r.s, "Expected \",\" or \")\"!")

\* the loop of parse_function_call_arguments
CallArgumentsLoop(s, arguments) ==
    LET r == Call("parse_expression", s, <<>>) IN
    IF ~r.ok THEN r
    ELSE LET args == Append(arguments, r.val) IN
         IF PeekKind(r.s) = "Comma" THEN Call("CallArgumentsLoop", consume(r.s).s, args)
         ELSE IF PeekKind(r.s) = "RightRoundBracket"
              THEN Ok(consume(r.s).s, args)
         ELSE Panic(r.s, "Expected \",\" or \")\"!")

\* parse_function_call_arguments
parse_function_call_arguments(s) ==
    LET s1 == consume(s).s IN
    IF PeekKind(s1) = "RightRoundBracket" THEN Ok(consume(s1).s, <<>>)
    ELSE Call("CallArgumentsLoop", s1, <<>>)

\* parse_identifier_or_function_call
\* the arguments after an identifier parsed and dropped: never a FunctionCall
parse_identifier_or_function_call_NoCall(s) ==
    LET r == ConsumeExpect(s, "Identifier", "Expected identifier!") IN
    IF ~r.ok THEN r
    ELSE IF PeekKind(r.s) = "LeftRoundBracket"
         THEN LET a == Call("parse_function_call_arguments", r.s, <<>>) IN
              IF a.ok THEN Ok(a.s, ExprIdentifier(r.val.text)) ELSE a
    ELSE Ok(r.s, ExprIdentifier(r.val.text))

parse_identifier_or_function_call(s) ==
    LET r == ConsumeExpect(s, "Identifier", "Expected identifier!") IN
    IF ~r.ok THEN r
    ELSE IF PeekKind(r.s) = "LeftRoundBracket"
         THEN LET a == Call("parse_function_call_arguments", r.s, <<>>) IN
              IF a.ok THEN Ok(a.s, FunctionCall(r.val.text, a.val)) ELSE a
    ELSE Ok(r.s, ExprIdentifier(r.val.text))

parse_factor(s) ==
    CASE PeekKind(s) = "Identifier" -> Call("parse_identifier_or_function_call", s, <<>>)
      [] PeekKind(s) = "Number" -> Call("parse_number", s, <<>>)
      [] PeekKind(s) = "String" -> Call("parse_string", s, <<>>)
      [] PeekKind(s) = "LeftRoundBracket" -> Call("parse_grouped_expression", s, <<>>)
      [] OTHER -> Panic(s, "Expected expression!")

\* the operator consumed by parse_term
TermOperator(kind) ==
    IF kind = "Times" THEN "Multiplication" ELSE "Division"

\* the while loop of parse_term
TermLoop(s, expression_left) ==
    IF PeekKind(s) \in {"Times", "Divide"} THEN
        LET r == Call("parse_factor", consume(s).s, <<>>) IN
        IF ~r.ok THEN r
        ELSE Call("TermLoop", r.s, BinaryOperation(TermOperator(PeekKind(s)),
                                           expression_left, r.val))
    ELSE Ok(s, expression_left)

\* parse_term
parse_term(s) ==
    LET r == Call("parse_factor", s, <<>>) IN IF r.ok THEN Call("TermLoop", r.s, r.val) ELSE r

\* the operator consumed by parse_comparison_operand
ComparisonOperandOperator(kind) ==
    IF kind = "Add" THEN "Addition" ELSE "Subtraction"

\* the while loop of parse_comparison_operand
\* the right operand of `+`/`-` parsed as a factor, not as a term
ComparisonOperandLoop_FactorOperand(s, expression_left) ==
    IF PeekKind(s) \in {"Add", "Minus"} THEN
        LET r == Call("parse_factor", consume(s).s, <<>>) IN
        IF ~r.ok THEN r
        ELSE Call("ComparisonOperandLoop", r.s,
                  BinaryOperation(ComparisonOperandOperator(PeekKind(s)),
                                  expression_left, r.val))
    ELSE Ok(s, expression_left)

ComparisonOperandLoop(s, expression_left) ==
    IF PeekKind(s) \in {"Add", "Minus"} THEN
        LET r == Call("parse_term", consume(s).s, <<>>) IN
        IF ~r.ok THEN r
        ELSE Call("ComparisonOperandLoop", r.s,
                BinaryOperation(ComparisonOperandOperator(PeekKind(s)),
                                expression_left, r.val))
    ELSE Ok(s, expression_left)

\* parse_comparison_operand
parse_comparison_operand(s) ==
    LET r == Call("parse_term", s, <<>>) IN
    IF r.ok THEN Call("ComparisonOperandLoop", r.s, r.val) ELSE r

\* the operator consumed by parse_assignment_operand
AssignmentOperandOperator(kind) ==
    IF kind = "Equal" THEN "Equal" ELSE "NotEqual"

\* the while loop of parse_assignment_operand
AssignmentOperandLoop(s, expression_left) ==
    IF PeekKind(s) \in {"Equal", "NotEqual"} THEN
        LET r == Call("parse_comparison_operand", consume(s).s, <<>>) IN
        IF ~r.ok THEN r
        ELSE Call("AssignmentOperandLoop", r.s,
                BinaryOperation(AssignmentOperandOperator(PeekKind(s)),
                                expression_left, r.val))
    ELSE Ok(s, expression_left)

\* parse_assignment_operand
parse_assignment_operand(s) ==
    LET r == Call("parse_comparison_operand", s, <<>>) IN
    IF r.ok THEN Call("AssignmentOperandLoop", r.s, r.val) ELSE r

\* the while loop of parse_expression
\* `=` folded to the right: the right operand is a whole expression
ExpressionLoop_RightAssociative(s, expression_left) ==
    IF PeekKind(s) = "Assign" THEN
        LET r == Call("parse_expression", consume(s).s, <<>>) IN
        IF ~r.ok THEN r
        ELSE Ok(r.s, BinaryOperation("Assign", expression_left, r.val))
    ELSE Ok(s, expression_left)

ExpressionLoop(s, expression_left) ==
    IF PeekKind(s) = "Assign" THEN
        LET r == Call("parse_assignment_operand", consume(s).s, <<>>) IN
        IF ~r.ok THEN r
        ELSE Call("ExpressionLoop", r.s,
                BinaryOperation("Assign", expression_left, r.val))
    ELSE Ok(s, expression_left)

parse_expression(s) ==
    LET r == Call("parse_assignment_operand", s, <<>>) IN
    IF r.ok THEN Call("ExpressionLoop", r.s, r.val) ELSE r

\* parse_expression_statement that takes any token as the end of the statement
parse_expression_statement_AnyEnd(s) ==
    LET r == Call("parse_expression", s, <<>>) IN
    IF ~r.ok THEN r
    ELSE LET c == consume(r.s) IN
         IF c.token # None THEN Ok(c.s, ExpressionStatement(r.val))
         ELSE Panic(c.s, "Expected \";\"!")

\* parse_expression_statement
parse_expression_statement(s) ==
    LET r == Call("parse_expression", s, <<>>) IN
    IF ~r.ok THEN r
    ELSE LET c == ConsumeExpect(r.s, "EndOfStatement", "Expected \";\"!") IN
         IF c.ok THEN Ok(c.s, ExpressionStatement(r.val)) ELSE c

\* parse_return_statement
parse_return_statement(s) ==
    LET r == Call("parse_expression", consume(s).s, <<>>) IN
    IF ~r.ok THEN r
    ELSE LET c == ConsumeExpect(r.s, "EndOfStatement", "Expected \";\"!") IN
         IF c.ok THEN Ok(c.s, Return(r.val)) ELSE c

\* the statement loop collecting the statements last first
StatementsLoop_Reversed(s, statements) ==
    IF PeekKind(s) = "None" THEN Panic(s, "Expected statements or \"}\"!")
    ELSE IF PeekKind(s) = "RightCurlyBracket" THEN Ok(s, statements)
    ELSE LET r == Call("parse_statement", s, <<>>) IN
         IF r.ok THEN Call("StatementsLoop", r.s, <<r.val>> \o statements) ELSE r

\* the statement loop of parse_block_statement and of parse_function_body
StatementsLoop(s, statements) ==
    IF PeekKind(s) = "None" THEN Panic(s, "Expected statements or \"}\"!")
    ELSE IF PeekKind(s) = "RightCurlyBracket" THEN Ok(s, statements)
    ELSE LET r == Call("parse_statement", s, <<>>) IN
         IF r.ok THEN Call("StatementsLoop", r.s, Append(statements, r.val)) ELSE r

\* parse_function_body
parse_function_body(s) ==
    LET o == ConsumeExpect(s, "LeftCurlyBracket", "Expected \"{\"!") IN
    IF ~o.ok THEN o
    ELSE LET l == Call("StatementsLoop", o.s, <<>>) IN
         IF ~l.ok THEN l
         ELSE LET c == ConsumeExpect(l.s, "RightCurlyBracket",
                                     "Expected \"}\"!") IN
              IF c.ok THEN Ok(c.s, l.val) ELSE c

\* the optional `: IDENT` after a name: the stream after it and the type
OptionalType(s) ==
    LET r == ConsumeExpect(consume(s).s, "Identifier", "Expected identifier!") IN
    IF r.ok THEN Ok(r.s, Some(r.val.text)) ELSE r

\* parse_function_parameter
parse_function_parameter(s) ==
    LET n == ConsumeExpect(s, "Identifier", "Expected identifier!") IN
    IF ~n.ok THEN n
    ELSE IF PeekKind(n.s) = "VariableTypeIndicator"
         THEN LET ty == OptionalType(n.s) IN
              IF ty.ok THEN Ok(ty.s, Parameter(n.val.text, ty.val)) ELSE ty
    ELSE Ok(n.s, Parameter(n.val.text, None))

\* the loop of parse_function_parameters: `)` ends it at the head of every
\* iteration, the first one and the one after a `,` alike
ParametersLoop(s, parameters) ==
    IF PeekKind(s) = "RightRoundBracket" THEN Ok(s, parameters)
    ELSE IF PeekKind(s) = "Identifier" THEN
        LET r == Call("parse_function_parameter", s, <<>>) IN
        IF ~r.ok THEN r
        ELSE LET ps == Append(parameters, r.val) IN
             IF PeekKind(r.s) = "Comma" THEN Call("ParametersLoop", consume(r.s).s, ps)
             ELSE IF PeekKind(r.s) = "RightRoundBracket" THEN Ok(r.s, ps)
             ELSE Panic(r.s, "Expected \",\" or \")\"!")
    ELSE Panic(s, "Expected parameters or \")\"!")

\* parse_function_parameters
parse_function_parameters(s) ==
    LET o == ConsumeExpect(s, "LeftRoundBracket", "Expected \"(\"!") IN
    IF ~o.ok THEN o
    ELSE LET l == Call("ParametersLoop", o.s, <<>>) IN
         IF ~l.ok THEN l
         ELSE LET c == ConsumeExpect(l.s, "RightRoundBracket",
                                     "Expected \")\"!") IN
              IF c.ok THEN Ok(c.s, l.val) ELSE c

\* parse_function_definition_statement, from the return type on
FunctionDefinitionTail(s, callee_name, parameters) ==
    LET ty == IF PeekKind(s) = "ReturnTypeIndicator" THEN OptionalType(s)
              ELSE Ok(s, None) IN
    IF ~ty.ok THEN ty
    ELSE LET b == Call("parse_function_body", ty.s, <<>>) IN
         IF b.ok
         THEN Ok(b.s, FunctionDefinition(callee_name, parameters, ty.val, b.val))
         ELSE b

\* parse_function_definition_statement
parse_function_definition_statement(s) ==
    LET n == ConsumeExpect(consume(s).s, "Identifier", "Expected identifier!") IN
    IF ~n.ok THEN n
    ELSE LET ps == Call("parse_function_parameters", n.s, <<>>) IN
         IF ps.ok THEN FunctionDefinitionTail(ps.s, n.val.text, ps.val) ELSE ps

\* parse_variable_definition_statement, from the `;` or `=` on
VariableDefinitionTail(s, ident, type) ==
    IF match_token(s, Tok("EndOfStatement"))
    THEN Ok(consume(s).s, VariableDefinition(ident, type, None))
    ELSE LET a == ConsumeExpect(s, "Assign", "Expected \"=\"!") IN
         IF ~a.ok THEN a
         ELSE LET v == Call("parse_expression", a.s, <<>>) IN
              IF ~v.ok THEN v
              ELSE LET c == ConsumeExpect(v.s, "EndOfStatement",
                                          "Expected \";\"!") IN
                   IF c.ok
                   THEN Ok(c.s, VariableDefinition(ident, type, Some(v.val)))
                   ELSE c

\* parse_variable_definition_statement
parse_variable_definition_statement(s) ==
    LET n == ConsumeExpect(consume(s).s, "Identifier", "Expected identifier!") IN
    IF ~n.ok THEN n
    ELSE IF match_token(n.s, Tok("VariableTypeIndicator"))
         THEN LET ty == OptionalType(n.s) IN
              IF ty.ok THEN VariableDefinitionTail(ty.s, n.val.text, ty.val)
              ELSE ty
    ELSE VariableDefinitionTail(n.s, n.val.text, None)

\* parse_block_statement
parse_block_statement(s) ==
    LET l == Call("StatementsLoop", consume(s).s, <<>>) IN
    IF ~l.ok THEN l
    ELSE LET c == ConsumeExpect(l.s, "RightCurlyBracket", "Expected \"}\"!") IN
         IF c.ok THEN Ok(c.s, Block(l.val)) ELSE c

\* parse_statement that takes a stray `}` as an empty statement and leaves it
\* in the stream
parse_statement_StrayBracket(s) ==
    CASE PeekKind(s) = "LeftCurlyBracket" -> Call("parse_block_statement", s, <<>>)
      [] PeekKind(s) = "RightCurlyBracket" -> Ok(s, Block(<<>>))
      [] PeekKind(s) = "Let" -> Call("parse_variable_definition_statement", s, <<>>)
      [] PeekKind(s) = "Function" -> Call("parse_function_definition_statement", s, <<>>)
      [] PeekKind(s) = "Return" -> Call("parse_return_statement", s, <<>>)
      [] OTHER -> Call("parse_expression_statement", s, <<>>)

\* parse_statement: one token of lookahead.  The arm for a variable
\* definition is Token::Let, a variant the tokenizer's Token does not have
\* and fsm_proc never emits (the keyword `var` is Token::Variable).
parse_statement(s) ==
    CASE PeekKind(s) = "LeftCurlyBracket" -> Call("parse_block_statement", s, <<>>)
      [] PeekKind(s) = "Let" -> Call("parse_variable_definition_statement", s, <<>>)
      [] PeekKind(s) = "Function" -> Call("parse_function_definition_statement", s, <<>>)
      [] PeekKind(s) = "Return" -> Call("parse_return_statement", s, <<>>)
      [] OTHER -> Call("parse_expression_statement", s, <<>>)

\* the while loop of parse_program
ProgramLoop(s, statements) ==
    IF OptionTokenEq(peek(s), EndOfProgram) THEN Ok(s, Program(statements))
    ELSE LET r == Call("parse_statement", s, <<>>) IN
         IF r.ok THEN Call("ProgramLoop", r.s, Append(statements, r.val)) ELSE r

Call(fn, s, acc) ==
    CASE fn = "parse_statement" -> parse_statement(s)
      [] fn = "parse_expression" -> parse_expression(s)
      [] fn = "parse_factor" -> parse_factor(s)
      [] fn = "parse_number" -> parse_number(s)
      [] fn = "parse_string" -> parse_string(s)
      [] fn = "parse_grouped_expression" -> parse_grouped_expression(s)
      [] fn = "parse_function_call_arguments" -> parse_function_call_arguments(s)
      [] fn = "parse_identifier_or_function_call" -> parse_identifier_or_function_call(s)
      [] fn = "parse_term" -> parse_term(s)
      [] fn = "parse_comparison_operand" -> parse_comparison_operand(s)
      [] fn = "parse_assignment_operand" -> parse_assignment_operand(s)
      [] fn = "parse_expression_statement" -> parse_expression_statement(s)
      [] fn = "parse_return_statement" -> parse_return_statement(s)
      [] fn = "parse_function_body" -> parse_function_body(s)
      [] fn = "parse_function_parameter" -> parse_function_parameter(s)
      [] fn = "parse_function_parameters" -> parse_function_parameters(s)
      [] fn = "parse_function_definition_statement" -> parse_function_definition_statement(s)
      [] fn = "parse_variable_definition_statement" -> parse_variable_definition_statement(s)
      [] fn = "parse_block_statement" -> parse_block_statement(s)
      [] fn = "CallArgumentsLoop" -> CallArgumentsLoop(s, acc)
      [] fn = "TermLoop" -> TermLoop(s, acc)
      [] fn = "ComparisonOperandLoop" -> ComparisonOperandLoop(s, acc)
      [] fn = "AssignmentOperandLoop" -> AssignmentOperandLoop(s, acc)
      [] fn = "ExpressionLoop" -> ExpressionLoop(s, acc)
      [] fn = "StatementsLoop" -> StatementsLoop(s, acc)
      [] fn = "ParametersLoop" -> ParametersLoop(s, acc)
      [] fn = "ProgramLoop" -> ProgramLoop(s, acc)

\* Parser::new(stream).parse_program()
parse_program(s) == Call("ProgramLoop", s, <<>>)

----------------------------------------------------------------------------
(* Inputs.                                                                 *)

\* Bound: the number of source bytes one Tokenizer is given over its life.
MaxBytes == 4

\* Bound: the number of scan() calls between two extract() calls.
MaxScans == 2

\* Bound: the length of the enumerated texts process_string is run on.
MaxLen == 3

\* The bytes of the texts given to a reused Tokenizer: a letter, a digit, the
\* quote and the bytes of the comments.
Alphabet == {B("a"), B("1"), B("\""), B("/"), B("*")}

\* The bytes of the enumerated texts of process_string: Alphabet, a line
\* end, the bytes of the two-byte operators, the statement end and an
\* invalid byte.
WideAlphabet ==
    Alphabet \cup {B("\n"), B("="), B("!"), B("-"), B(">"), B(";"), B("#")}

\* every text over the bytes A of exactly n bytes
TextsOfLen(A, n) == [1..n -> A]

\* every text over the bytes A of at most n bytes
TextsUpTo(A, n) == UNION {TextsOfLen(A, k) : k \in 0..n}

\* Operands of the sample expressions: the source text and the expression
\* the grammar gives it.
Operands ==
    {[text |-> T(<<"a">>), expr |-> ExprIdentifier(T(<<"a">>))],
     [text |-> T(<<"x", "_", "1">>), expr |-> ExprIdentifier(T(<<"x", "_", "1">>))],
     [text |-> T(<<"4", "7">>), expr |-> ExprNumber(Isize(47))]}

\* `a <op1> b <op2> c;`
Infix(a, op1, b, op2, c) ==
    a.text \o T(<<" ">>) \o op1 \o T(<<" ">>) \o b.text \o T(<<" ">>) \o op2
           \o T(<<" ">>) \o c.text \o T(<<";">>)

\* `a <op1> (b <op2> c);`
InfixGrouped(a, op1, b, op2, c) ==
    a.text \o T(<<" ">>) \o op1 \o T(<<" ", "(">>) \o b.text \o T(<<" ">>) \o op2
           \o T(<<" ">>) \o c.text \o T(<<")", ";">>)

\* the source text of each binary operator of the parser
OperatorText ==
    [Assign |-> T(<<"=">>), Equal |-> T(<<"=", "=">>),
     NotEqual |-> T(<<"!", "=">>), Addition |-> T(<<"+">>),
     Subtraction |-> T(<<"-">>), Multiplication |-> T(<<"*">>),
     Division |-> T(<<"/">>)]

\* the grammar level of each binary operator, lowest first
OperatorLevel ==
    [Assign |-> 1, Equal |-> 2, NotEqual |-> 2, Addition |-> 3,
     Subtraction |-> 3, Multiplication |-> 4, Division |-> 4]

\* the operator pairs of the sample expressions
OperatorPairs ==
    {<<"Multiplication", "Addition">>, <<"Addition", "Multiplication">>,
     <<"Subtraction", "Subtraction">>, <<"Equal", "Addition">>,
     <<"Assign", "Assign">>, <<"Equal", "NotEqual">>,
     <<"Addition", "Subtraction">>, <<"Multiplication", "Division">>,
     <<"Division", "Multiplication">>, <<"Assign", "Equal">>,
     <<"Subtraction", "Division">>, <<"Multiplication", "Subtraction">>}

InfixTexts ==
    {Infix(a, OperatorText[p[1]], b, OperatorText[p[2]], c) :
        a \in Operands, b \in Operands, c \in Operands, p \in OperatorPairs}

InfixGroupedTexts ==
    {InfixGrouped(a, OperatorText[p[1]], b, OperatorText[p[2]], c) :
        a \in Operands, b \in Operands, c \in Operands, p \in OperatorPairs}

VarPlain == T(<<"v", "a", "r", " ", "x", ";">>)
VarTyped == T(<<"v", "a", "r", " ", "x", ":", " ", "i", "n", "t", ";">>)
VarInit == T(<<"v", "a", "r", " ", "x", " ", "=", " ", "1", ";">>)
VarTypedInit == T(<<"v", "a", "r", " ", "x", ":", " ", "i", "n", "t", " ",
      "=", " ", "1", ";">>)
AssignmentSample == T(<<"v", "a", "l", "u", "e", " ", "=", " ", "(", "f",
      "a", "c", "t", "o", "r", " ", "+", " ", "9", ")", " ", "/", " ", "1",
      "7", ";">>)
FuncTrailingComma == T(<<"f", "u", "n", "c", " ", "f", "(", "a", ",", ")",
      " ", "{", "}">>)
FuncNoParameters == T(<<"f", "u", "n", "c", " ", "f", "(", ")", " ", "{",
      "}">>)
FuncOneParameter == T(<<"f", "u", "n", "c", " ", "f", "(", "a", ")", " ",
      "{", "}">>)
FuncTwoParameters == T(<<"f", "u", "n", "c", " ", "f", "(", "a", ":", " ",
      "i", "n", "t", ",", " ", "b", ")", " ", "-", ">", " ", "i", "n", "t",
      " ", "{", " ", "r", "e", "t", "u", "r", "n", " ", "a", ";", " ",
      "}">>)
FuncLeadingComma == T(<<"f", "u", "n", "c", " ", "f", "(", ",", "a", ")",
      " ", "{", "}">>)
ExclamationSample == T(<<"a", " ", "!", " ", "b", ";">>)
ExclamationAlone == T(<<"a", " ", "!", " ", ";">>)
InvalidByteSample == T(<<"a", " ", "#", " ", "=", " ", "1", ";">>)
StarsComment == T(<<"/", "*", "*", "*", "/">>)
StarsCommentThenStatement == T(<<"/", "*", "*", "*", "/", "a", ";">>)
TwoStarsComment == T(<<"/", "*", " ", "x", " ", "*", "*", "/">>)
TwoStarsCommentThenStatement == T(<<"/", "*", " ", "x", " ", "*", "*", "/",
      "a", ";">>)
PlainCommentThenStatement == T(<<"/", "*", " ", "x", " ", "*", "/", "a",
      ";">>)
CommentedDefinition == T(<<"/", "*", " ", "c", "1", " ", "*", "/", " ", "v",
      "a", "r", " ", "/", "*", "c", "2", "*", "/", " ", "x", " ", "/", "*",
      "c", "3", "*", "/", " ", "=", " ", "/", "*", "c", "4", "*", "/", " ",
      "1", " ", "/", "*", "c", "5", "*", "/", " ", ";">>)

IdentifierOnly == T(<<"x">>)
NumberOnly == T(<<"4", "7">>)
IdentifierThenComment == T(<<"a", "/", "*", "*", "/">>)
IdentifierThenLineComment == T(<<"a", "/", "/", "c", "\n">>)
DivideThenComment == T(<<"1", " ", "/", "/", "*", "*", "/", " ", "2", ";">>)
DivideSample == T(<<"1", " ", "/", " ", "2", ";">>)

LetPlain ==
    T(<<"l", "e", "t", " ", "v", "a", "r", "_", "1", ";">>)
LetInit ==
    T(<<"l", "e", "t", " ", "v", "a", "r", "_", "2", " ", "=", " ", "4",
        "7", ";">>)
LetTyped ==
    T(<<"l", "e", "t", " ", "v", "a", "r", "_", "3", ":", " ", "i", "n",
        "t", ";">>)
LetTypedInit ==
    T(<<"l", "e", "t", " ", "v", "a", "r", "_", "4", ":", " ", "i", "n",
        "t", " ", "=", " ", "2", "3", ";">>)
UnclosedGroup ==
    T(<<"v", "a", "r", " ", "x", " ", "=", " ", "(", "1", " ", "+", " ",
        "2", ";">>)
UnclosedGroupExpression ==
    T(<<"x", " ", "=", " ", "(", "1", " ", "+", " ", "2", ";">>)
NestedBlocks ==
    T(<<"{", " ", "(", "a", ")", ";", " ", "{", " ", "}", " ", "}">>)
NestedGroups ==
    T(<<"f", "(", "(", "a", ")", ")", ";">>)
UnclosedBlock ==
    T(<<"{", " ", "a", ";">>)
CrossedBrackets ==
    T(<<"{", " ", "(", "a", " ", "}", " ", ")", ";">>)
StrayRoundBracket ==
    T(<<"a", ")", ";">>)
StrayCurlyBracket ==
    T(<<"}">>)
CallSample ==
    T(<<"f", "(", "a", ",", " ", "g", "(", "1", ")", ",", " ", "b", ")",
        ";">>)
CallNoArguments ==
    T(<<"f", "(", ")", ";">>)
GroupedCallee ==
    T(<<"(", "f", ")", "(", "a", ")", ";">>)
ReturnCall ==
    T(<<"r", "e", "t", "u", "r", "n", " ", "f", "(", "a", ")", " ", "+",
        " ", "b", ";">>)

CallTrailingComma ==
    T(<<"f", "(", "a", ",", ")", ";">>)
VarNoName ==
    T(<<"v", "a", "r", " ", "=", " ", "1", ";">>)
VarNoSeparator ==
    T(<<"v", "a", "r", " ", "x", " ", "i", "n", "t", ";">>)
BlockSample ==
    T(<<"{", " ", "v", "a", "l", "u", "e", " ", "=", " ", "4", "5", ";",
        " ", "{", " ", "v", "a", "l", "u", "e", " ", "=", " ", "3", "3",
        ";", " ", "}", " ", "{", "}", " ", "}">>)
EmptyBlock ==
    T(<<"{", "}">>)
DeepBlock ==
    T(<<"{", "{", "{", "}", "}", "}">>)

StringEscapes ==
    T(<<"\"", "a", "\\", "n", "\"", ";">>)
StringWithTab ==
    T(<<"\"", "a", "\t", "b", "\"", ";">>)
StringWithDel ==
    T(<<"\"", "DEL", "\"", ";">>)
StringWithNewline ==
    T(<<"\"", "a", "\r", "\n", " ", "~", "\"", ";">>)
PushBackSample ==
    T(<<"a", "+", "b", ";">>)
PushBackOperators ==
    T(<<"1", "-", "a", "=", "b", "/", "2", ";">>)

Samples ==
    {StringEscapes,
     StringWithTab,
     StringWithDel,
     StringWithNewline,
     PushBackSample,
     PushBackOperators,
     CallTrailingComma,
     VarNoName,
     VarNoSeparator,
     BlockSample,
     EmptyBlock,
     DeepBlock,
     LetPlain,
     LetInit,
     LetTyped,
     LetTypedInit,
     UnclosedGroup,
     UnclosedGroupExpression,
     NestedBlocks,
     NestedGroups,
     UnclosedBlock,
     CrossedBrackets,
     StrayRoundBracket,
     StrayCurlyBracket,
     CallSample,
     CallNoArguments,
     GroupedCallee,
     ReturnCall,
     IdentifierOnly,
     NumberOnly,
     IdentifierThenComment,
     IdentifierThenLineComment,
     DivideThenComment,
     DivideSample,
     VarPlain,
     VarTyped,
     VarInit,
     VarTypedInit,
     AssignmentSample,
     FuncTrailingComma,
     FuncNoParameters,
     FuncOneParameter,
     FuncTwoParameters,
     FuncLeadingComma,
     ExclamationSample,
     ExclamationAlone,
     InvalidByteSample,
     StarsComment,
     StarsCommentThenStatement,
     TwoStarsComment,
     TwoStarsCommentThenStatement,
     PlainCommentThenStatement,
     CommentedDefinition}

\* the texts process_string is run on
MaxNumber ==
    T(<<"9", "2", "2", "3", "3", "7", "2", "0", "3", "6", "8", "5", "4",
        "7", "7", "5", "8", "0", "7", ";">>)
LongNumber ==
    T(<<"9", "2", "2", "3", "3", "7", "2", "0", "3", "6", "8", "5", "4",
        "7", "7", "5", "8", "0", "8", ";">>)
WrapNumber ==
    T(<<"1", "8", "4", "4", "6", "7", "4", "4", "0", "7", "3", "7", "0",
        "9", "5", "5", "1", "6", "1", "7", ";">>)
NegativeLiteral ==
    T(<<"-", "5", ";">>)

NumberTexts == {MaxNumber, LongNumber, WrapNumber, NegativeLiteral}

Programs == Samples \cup InfixTexts \cup InfixGroupedTexts \cup TextsUpTo(WideAlphabet, MaxLen) \cup NumberTexts

----------------------------------------------------------------------------
(* The Tokenizer's operations, any caller.                                 *)

Init ==
    /\ SetSelfInit
    /\ scanned = <<>>
    /\ fed = 0
    /\ log = <<>>
    /\ stream = None
    /\ source = <<>>
    /\ program = None
    /\ pc = "idle"
    /\ input = <<>>
    /\ call = NoCall
    /\ turns = <<>>
    /\ reachedEnd = FALSE

\* tokenizer.scan(text); the caller has dropped the stream of an earlier
\* extract().  The build has overflow checks or not; with them a number out
\* of range ends the process in the scan.
ScanCall(text, pc_after) ==
    LET wrapped == scan(Self, text, FALSE) IN
    \* the two builds differ only when a number has left the range
    \E overflow_checks \in IF wrapped.overflowed THEN BOOLEAN ELSE {FALSE} :
        LET r == IF overflow_checks THEN scan(Self, text, TRUE) ELSE wrapped
        IN  /\ SetSelf(r.t)
            /\ scanned' = Append(scanned, text)
            /\ fed' = fed + Len(text)
            /\ log' = r.log
            /\ stream' = None
            /\ source' = <<>>
            /\ program' = None
            /\ pc' = IF r.panicked THEN "aborted" ELSE pc_after
            /\ UNCHANGED <<input, callVars, turns>>

\* stream = tokenizer.extract()
ExtractCall ==
    LET r == extract(Self) IN
    /\ SetSelf(r.t)
    /\ stream' = Some(r.stream)
    /\ source' = scanned
    /\ scanned' = <<>>
    /\ program' = None
    /\ UNCHANGED <<fed, log, input, callVars, turns>>

\* Parser::new(stream).parse_program()
ParseCall ==
    LET r == parse_program(stream[1]) IN
    /\ program' = Some(r)
    /\ stream' = Some(r.s)
    /\ UNCHANGED <<tokenizerVars, historyVars, input, callVars, turns>>

Scan ==
    /\ pc = "idle"
    /\ Len(scanned) < MaxScans
    /\ \E n \in 0..(MaxBytes - fed) : \E text \in TextsOfLen(Alphabet, n) : ScanCall(text, pc)

Extract ==
    /\ pc = "idle"
    /\ ExtractCall
    /\ UNCHANGED pc

Next == Scan \/ Extract

Spec == Init /\ [][Next]_vars

----------------------------------------------------------------------------
(* process_string (frontend.rs; main.rs does the same on its sample).      *)

InitFrontend ==
    /\ SetSelfInit
    /\ scanned = <<>>
    /\ fed = 0
    /\ log = <<>>
    /\ stream = None
    /\ source = <<>>
    /\ program = None
    /\ pc = "scan"
    /\ input \in Programs
    /\ call = NoCall
    /\ turns = <<>>
    /\ reachedEnd = FALSE

ProcessScan ==
    /\ pc = "scan"
    /\ ScanCall(input, "extract")

ProcessExtract ==
    /\ pc = "extract"
    /\ ExtractCall
    /\ pc' = "parse"

ProcessParse ==
    /\ pc = "parse"
    /\ ParseCall
    /\ pc' = "done"

NextFrontend == ProcessScan \/ ProcessExtract \/ ProcessParse

SpecFrontend == InitFrontend /\ [][NextFrontend]_vars

----------------------------------------------------------------------------
(* The Stream's operations, any caller, on the stream that scan() and      *)
(* extract() of a new Tokenizer give for a text.                           *)

\* the texts whose streams are operated on
StreamTexts == Samples \cup TextsUpTo(Alphabet, MaxLen)

\* the tokens a caller passes to match_token
MatchTokens ==
    {EndOfProgram, Tok("EndOfStatement"), Tok("Divide"),
     TokIdentifier(T(<<"q">>)), TokNumber(Isize(0)), TokString(<<>>)}

\* the cursor is on an EndOfProgram token
AtEndOfProgram(s) ==
    s.current < Len(s.tokens) /\ s.tokens[s.current + 1] = EndOfProgram

InitStream ==
    /\ input \in StreamTexts
    /\ \E overflow_checks \in BOOLEAN :
       LET sc == scan(NewTokenizer, input, overflow_checks)
           r == extract(sc.t)
       IN  /\ ~sc.panicked
           /\ state = r.t.state
           /\ tokens = r.t.tokens
           /\ identifier = r.t.identifier
           /\ number = r.t.number
           /\ string = r.t.string
           /\ log = sc.log
           /\ stream = Some(r.stream)
           /\ reachedEnd = AtEndOfProgram(r.stream)
    /\ scanned = <<>>
    /\ fed = Len(input)
    /\ source = <<input>>
    /\ program = None
    /\ pc = "stream"
    /\ call = NoCall
    /\ turns = <<>>

\* what every call on the stream leaves alone
StreamFrame ==
    UNCHANGED <<tokenizerVars, historyVars, program, frontVars, turns>>

\* stream.peek()
Peek ==
    /\ pc = "stream"
    /\ call' = [op |-> "peek", arg |-> None, token |-> peek(stream[1]),
                matched |-> FALSE, before |-> stream]
    /\ UNCHANGED <<stream, reachedEnd>>
    /\ StreamFrame

\* stream.consume()
Consume ==
    /\ pc = "stream"
    /\ LET r == consume(stream[1]) IN
       /\ call' = [op |-> "consume", arg |-> None, token |-> r.token,
                   matched |-> FALSE, before |-> stream]
       /\ stream' = Some(r.s)
       /\ reachedEnd' = (reachedEnd \/ AtEndOfProgram(r.s))
    /\ StreamFrame

\* stream.match_token(expected)
Match ==
    /\ pc = "stream"
    /\ \E expected \in MatchTokens :
          call' = [op |-> "match_token", arg |-> Some(expected),
                   token |-> None,
                   matched |-> match_token(stream[1], expected),
                   before |-> stream]
    /\ UNCHANGED <<stream, reachedEnd>>
    /\ StreamFrame

NextStream == Peek \/ Consume \/ Match

SpecStream == InitStream /\ [][NextStream]_vars

----------------------------------------------------------------------------
(* The tokens of a text scanned by a new Tokenizer.                        *)

TokensOf(text) == scan(NewTokenizer, text, FALSE).t.tokens

\* the entry of the end-of-input feed in the log of a scan
LastFeed == log[Len(log)]

----------------------------------------------------------------------------
(* C1.  Every token stream returned by an extract() that follows at least  *)
(* one scan() ends with exactly one EndOfProgram and has no EndOfProgram   *)
(* at any other position.                                                  *)

EndsWithOneEndOfProgram(toks) ==
    /\ Len(toks) >= 1
    /\ toks[Len(toks)] = EndOfProgram
    /\ \A i \in 1..(Len(toks) - 1) : toks[i] # EndOfProgram

C1_StreamEndsWithOneEndOfProgram ==
    (stream # None /\ source # <<>>) =>
        EndsWithOneEndOfProgram(stream[1].tokens)

----------------------------------------------------------------------------
(* C2.  When a feed answers InvalidByte the front end halts: it is the     *)
(* last feed of the scan, no token is emitted after it (no EndOfProgram    *)
(* either) and neither extract() nor the parser runs on that input.        *)

C2_InvalidByteHalts ==
    \A i \in 1..Len(log) :
        log[i].result = "InvalidByte" =>
            /\ i = Len(log)
            /\ Len(tokens) <= log[i].ntokens
            /\ stream = None
            /\ program = None

----------------------------------------------------------------------------
(* C3.  When the end of input arrives inside an identifier run or a number *)
(* run, the accumulated token is emitted before EndOfProgram: `x` gives    *)
(* [Identifier(x), EndOfProgram], `47` gives [Number(47), EndOfProgram].   *)

C3_EndOfInputFlushesRun ==
    (pc = "extract") =>
        /\ LastFeed.before = "HaveIdentifierChar" =>
              /\ Len(tokens) >= 2
              /\ tokens[Len(tokens) - 1] = KeywordToken(identifier)
        /\ LastFeed.before = "HaveNumericChar" =>
              /\ Len(tokens) >= 2
              /\ tokens[Len(tokens) - 1] = TokNumber(number)
        /\ input = IdentifierOnly =>
              tokens = <<TokIdentifier(IdentifierOnly), EndOfProgram>>
        /\ input = NumberOnly => tokens = <<TokNumber(Isize(47)), EndOfProgram>>

----------------------------------------------------------------------------
(* C4.  Comment transparency: a text with a comment between two adjacent   *)
(* tokens (EndOfProgram being the last token) gives the tokens of the text *)
(* without the comment.                                                    *)

\* `//` through the first line end
IsSingleLineComment(c) ==
    /\ Len(c) >= 3
    /\ c[1] = B("/") /\ c[2] = B("/")
    /\ c[Len(c)] = B("\n")
    /\ \A k \in 3..(Len(c) - 1) : c[k] # B("\n") /\ c[k] # B("\r")

\* `/*` through the first `*/` after it
IsMultiLineComment(c) ==
    /\ Len(c) >= 4
    /\ c[1] = B("/") /\ c[2] = B("*")
    /\ c[Len(c) - 1] = B("*") /\ c[Len(c)] = B("/")
    /\ \A k \in 3..(Len(c) - 2) : ~(c[k] = B("*") /\ c[k + 1] = B("/"))

IsComment(c) == IsSingleLineComment(c) \/ IsMultiLineComment(c)

\* the places <<i, j>> of the comments in a text
CommentsIn(text) ==
    {ij \in (1..Len(text)) \X (1..Len(text)) :
        ij[1] < ij[2] /\ IsComment(SubSeq(text, ij[1], ij[2]))}

\* the text without its bytes i..j
Without(text, i, j) ==
    SubSeq(text, 1, i - 1) \o SubSeq(text, j + 1, Len(text))

\* the FSM states in which a whole lexeme is pending
PendingLexeme ==
    {"HaveIdentifierChar", "HaveNumericChar", "HaveCharEqual",
     "HaveCharHyphen", "HaveCharForwardSlash"}

\* after p bytes of text the FSM is between two tokens: in Start, or with a
\* whole lexeme pending that the next byte (or the end of input) ends
TokenBoundary(text, p) ==
    LET lg == scan(NewTokenizer, text, FALSE).log
        st == IF p = 0 THEN "Start" ELSE lg[p].after
    IN  \/ st = "Start"
        \/ /\ st \in PendingLexeme
           /\ (p = Len(text) \/ lg[p + 1].steps > 1)

C4_CommentTransparency ==
    (pc = "extract") =>
        \A ij \in CommentsIn(input) :
            LET S == Without(input, ij[1], ij[2]) IN
            TokenBoundary(S, ij[1] - 1) => tokens = TokensOf(S)

----------------------------------------------------------------------------
(* C5.  In a multi-line comment after a `*`: `/` closes the comment, `*`   *)
(* keeps the FSM in the saw-star state, any other byte returns to the      *)
(* in-comment state; so `/***/` and `/* x **/` are complete comments.      *)

C5_StarSlashClosesComment ==
    /\ \A i \in 1..Len(log) :
          (/\ log[i].before = "HaveMultiLineCommentEndCharAsterisk"
           /\ log[i].byte # None) =>
              log[i].after =
                  IF log[i].byte[1] = B("/") THEN "Start"
                  ELSE IF log[i].byte[1] = B("*")
                       THEN "HaveMultiLineCommentEndCharAsterisk"
                  ELSE "HaveMultiLineCommentStart"
    /\ (pc = "extract" /\ input \in {StarsComment, TwoStarsComment}) =>
          state = "Start"
    /\ (pc = "extract" /\ input \in {StarsCommentThenStatement,
                                     TwoStarsCommentThenStatement}) =>
          tokens = TokensOf(T(<<"a", ";">>))

----------------------------------------------------------------------------
\* process_string has returned the program with these statements
Parsed(statements) ==
    /\ pc = "done"
    /\ program # None
    /\ program[1].ok
    /\ program[1].val = Program(statements)

----------------------------------------------------------------------------
(* C6.  A statement starting with `var` is a variable definition: each of  *)
(* `var x;`, `var x: int;`, `var x = 1;`, `var x: int = 1;` parses to the  *)
(* VariableDefinition with that name, optional type and optional           *)
(* initializer.                                                            *)

VariableDefinitionCases ==
    {[text |-> VarPlain, type |-> None, value |-> None],
     [text |-> VarTyped, type |-> Some(T(<<"i", "n", "t">>)), value |-> None],
     [text |-> VarInit, type |-> None, value |-> Some(ExprNumber(Isize(1)))],
     [text |-> VarTypedInit, type |-> Some(T(<<"i", "n", "t">>)),
      value |-> Some(ExprNumber(Isize(1)))]}

C6_VarIsVariableDefinition ==
    \A case \in VariableDefinitionCases :
        (pc = "done" /\ input = case.text) =>
            Parsed(<<VariableDefinition(T(<<"x">>), case.type, case.value)>>)

----------------------------------------------------------------------------
(* C7.  Operator precedence: `a * b + c` parses as (a*b)+c, `a + b * c`    *)
(* as a+(b*c), `a - b - c` as (a-b)-c, `a == b + c` as a==(b+c),           *)
(* `a * (b - c)` as Mul(a, Sub(b, c)) for any operands, and                *)
(* `value = (factor + 9) / 17` as Assign(value, Div(Add(factor, 9), 17)).  *)

Op(name) == OperatorText[name]

PrecedenceCases ==
    UNION {
        {[text |-> Infix(a, Op("Multiplication"), b, Op("Addition"), c),
          expr |-> BinaryOperation("Addition",
                       BinaryOperation("Multiplication", a.expr, b.expr),
                       c.expr)],
         [text |-> Infix(a, Op("Addition"), b, Op("Multiplication"), c),
          expr |-> BinaryOperation("Addition", a.expr,
                       BinaryOperation("Multiplication", b.expr, c.expr))],
         [text |-> Infix(a, Op("Subtraction"), b, Op("Subtraction"), c),
          expr |-> BinaryOperation("Subtraction",
                       BinaryOperation("Subtraction", a.expr, b.expr),
                       c.expr)],
         [text |-> Infix(a, Op("Equal"), b, Op("Addition"), c),
          expr |-> BinaryOperation("Equal", a.expr,
                       BinaryOperation("Addition", b.expr, c.expr))],
         [text |-> InfixGrouped(a, Op("Multiplication"), b,
                                Op("Subtraction"), c),
          expr |-> BinaryOperation("Multiplication", a.expr,
                       BinaryOperation("Subtraction", b.expr, c.expr))]} :
        a \in Operands, b \in Operands, c \in Operands}
    \cup
    {[text |-> AssignmentSample,
      expr |-> BinaryOperation("Assign",
                   ExprIdentifier(T(<<"v", "a", "l", "u", "e">>)),
                   BinaryOperation("Division",
                       BinaryOperation("Addition",
                           ExprIdentifier(T(<<"f", "a", "c", "t", "o", "r">>)),
                           ExprNumber(Isize(9))),
                       ExprNumber(Isize(17))))]}

C7_OperatorPrecedence ==
    \A case \in PrecedenceCases :
        (pc = "done" /\ input = case.text) =>
            Parsed(<<ExpressionStatement(case.expr)>>)

C7_Witness ==
    /\ Parsed(<<ExpressionStatement(
           BinaryOperation("Addition", ExprIdentifier(T(<<"x", "_", "1">>)),
               BinaryOperation("Multiplication", ExprNumber(Isize(47)),
                               ExprIdentifier(T(<<"a">>)))))>>)
    /\ input = T(<<"x", "_", "1", " ", "+", " ", "4", "7", " ", "*", " ",
                   "a", ";">>)

----------------------------------------------------------------------------
(* C8.  Every binary level folds to the left: in `a <op1> b <op2> c` with  *)
(* op1 and op2 of the same level the second operator wraps the first       *)
(* operation as its left operand; `a = b = c` is accepted and parses to    *)
(* Assign(Assign(a, b), c).                                                *)

SameLevelPairs ==
    {p \in OperatorPairs : OperatorLevel[p[1]] = OperatorLevel[p[2]]}

C8_LeftAssociativeFold ==
    \A a \in Operands, b \in Operands, c \in Operands, p \in SameLevelPairs :
        (pc = "done" /\ input = Infix(a, Op(p[1]), b, Op(p[2]), c)) =>
            Parsed(<<ExpressionStatement(
                BinaryOperation(p[2],
                    BinaryOperation(p[1], a.expr, b.expr), c.expr))>>)

C8_Witness ==
    /\ input = T(<<"a", " ", "=", " ", "x", "_", "1", " ", "=", " ", "4", "7",
                   ";">>)
    /\ Parsed(<<ExpressionStatement(
           BinaryOperation("Assign",
               BinaryOperation("Assign", ExprIdentifier(T(<<"a">>)),
                               ExprIdentifier(T(<<"x", "_", "1">>))),
               ExprNumber(Isize(47))))>>)

----------------------------------------------------------------------------
(* C9.  In a function definition's parameter list a trailing comma before  *)
(* `)` is a syntax error (`func f(a,) {}` is not parsed), and the empty    *)
(* list `()` is accepted.                                                  *)

C9_TrailingCommaRejected ==
    /\ (pc = "done" /\ input = FuncTrailingComma) => ~program[1].ok
    /\ (pc = "done" /\ input = FuncNoParameters) =>
          Parsed(<<FunctionDefinition(T(<<"f">>), <<>>, None, <<>>)>>)

----------------------------------------------------------------------------
(* C10.  extract() resets the tokenizer for reuse: the stream of an        *)
(* extract() that follows one scan(t2), whatever was scanned and extracted *)
(* before, holds the tokens that a new Tokenizer gives for t2, and every   *)
(* extracted stream starts with cursor 0.                                  *)

C10_ExtractResetsForReuse ==
    (stream # None) =>
        /\ stream[1].current = 0
        /\ Len(source) = 1 => stream[1].tokens = TokensOf(source[1])

\* a second extract: bytes were fed before the one text of this stream, and
\* an earlier string literal is still in the string buffer
C10_Witness ==
    /\ stream # None
    /\ Len(source) = 1
    /\ fed > Len(source[1])
    /\ string # <<>>
    /\ Len(stream[1].tokens) > 1

----------------------------------------------------------------------------
(* C11.  Once the cursor of a token stream has reached the EndOfProgram    *)
(* token, every later peek() returns EndOfProgram, whatever calls were     *)
(* made in between.                                                        *)

C11_PeekStaysOnEndOfProgram ==
    (reachedEnd /\ call.op = "peek") => call.token = Some(EndOfProgram)

----------------------------------------------------------------------------
(* C12.  The cursor of a token stream starts at 0, no call (peek, consume, *)
(* match_token) decreases it, it stays within 0..number of tokens, and no  *)
(* call changes the token sequence.                                        *)

C12_CursorMonotoneInRange ==
    (pc = "stream") =>
        /\ stream[1].current \in 0..Len(stream[1].tokens)
        /\ stream[1].tokens = TokensOf(input)
        /\ call.op = "none" => stream[1].current = 0
        /\ call.op # "none" =>
              /\ stream[1].current >= call.before[1].current
              /\ stream[1].tokens = call.before[1].tokens

\* a consume() at the end of the tokens has returned None
C12_Witness ==
    /\ pc = "stream"
    /\ call.op = "consume"
    /\ call.token = None
    /\ stream[1].current = Len(stream[1].tokens)
    /\ stream[1].current > 0

----------------------------------------------------------------------------
(* C13.  match_token(expected) answers true iff the cursor is within the   *)
(* tokens and the token at the cursor has the kind of `expected`, whatever *)
(* the payloads; it answers false past the end; it leaves the cursor       *)
(* where it was.                                                           *)

C13_MatchByKindOnly ==
    (call.op = "match_token") =>
        LET b == call.before[1]
            within == b.current < Len(b.tokens)
        IN  /\ call.matched =
                  (within /\ b.tokens[b.current + 1].kind = call.arg[1].kind)
            /\ ~within => ~call.matched
            /\ stream = call.before

\* an Identifier of another text has matched
C13_Witness ==
    /\ call.op = "match_token"
    /\ call.matched
    /\ call.arg[1].kind = "Identifier"
    /\ stream[1].tokens[stream[1].current + 1].text # call.arg[1].text

----------------------------------------------------------------------------
\* the tokens pushed by the i-th feed() of the scan of process_string
Emitted(i) ==
    SubSeq(tokens, (IF i = 1 THEN 0 ELSE log[i - 1].ntokens) + 1,
           log[i].ntokens)

----------------------------------------------------------------------------
(* C14.  Greedy longest match: when the scanner, outside strings and       *)
(* comments, takes `=`, `!` or `-` as the start of an operator and the     *)
(* next byte is `=`, `=` or `>`, the pair is emitted as the one token      *)
(* Equal, NotEqual or ReturnTypeIndicator, never as two tokens.            *)

TwoByteOperators ==
    {[state |-> "HaveCharEqual", first |-> B("="), second |-> B("="),
      token |-> Tok("Equal")],
     [state |-> "HaveCharExclamationMark", first |-> B("!"),
      second |-> B("="), token |-> Tok("NotEqual")],
     [state |-> "HaveCharHyphen", first |-> B("-"), second |-> B(">"),
      token |-> Tok("ReturnTypeIndicator")]}

C14_GreedyLongestMatch ==
    (pc = "extract") =>
        /\ \A i \in 1..(Len(log) - 1) : \A o \in TwoByteOperators :
              (/\ log[i].byte = Some(o.first)
               /\ log[i].after = o.state
               /\ log[i + 1].byte = Some(o.second)) =>
                  /\ Emitted(i + 1) = <<o.token>>
                  /\ log[i + 1].after = "Start"
        /\ input = T(<<"=", "=", "=">>) =>
              tokens = <<Tok("Equal"), Tok("Assign"), EndOfProgram>>
        /\ input = T(<<"!", "=", ";">>) =>
              tokens = <<Tok("NotEqual"), Tok("EndOfStatement"), EndOfProgram>>
        /\ input = T(<<"-", ">", ";">>) =>
              tokens = <<Tok("ReturnTypeIndicator"), Tok("EndOfStatement"),
                         EndOfProgram>>

C14_Witness ==
    /\ pc = "extract"
    /\ input = T(<<"a", "=", "=">>)
    /\ tokens = <<TokIdentifier(T(<<"a">>)), Tok("Equal"), EndOfProgram>>

----------------------------------------------------------------------------
(* C15.  Keyword exclusivity: no Identifier token carries the text `var`,  *)
(* `func` or `return`; the token emitted for an identifier run with one of *)
(* these texts is the keyword token, for any other text it is              *)
(* Identifier(text); every Identifier text is non-empty and of the form    *)
(* [A-Za-z_][A-Za-z0-9_]*.                                                 *)

Keywords ==
    {[text |-> T(<<"v", "a", "r">>), token |-> Tok("Variable")],
     [text |-> T(<<"f", "u", "n", "c">>), token |-> Tok("Function")],
     [text |-> T(<<"r", "e", "t", "u", "r", "n">>), token |-> Tok("Return")]}

IsLetterOrUnderscore(byte) ==
    byte \in (B("A")..B("Z")) \cup (B("a")..B("z")) \cup {B("_")}

IsIdentifierText(text) ==
    /\ Len(text) >= 1
    /\ IsLetterOrUnderscore(text[1])
    /\ \A k \in 2..Len(text) :
          IsLetterOrUnderscore(text[k]) \/ text[k] \in B("0")..B("9")

\* the first byte of the identifier run that the i-th feed() ends
RunStart(i) ==
    CHOOSE k \in 1..(i - 1) :
        /\ log[k].before # "HaveIdentifierChar" \/ log[k].steps > 1
        /\ \A j \in k..(i - 1) : log[j].after = "HaveIdentifierChar"
        /\ \A j \in (k + 1)..(i - 1) :
              log[j].before = "HaveIdentifierChar" /\ log[j].steps = 1

RunText(i) == SubSeq(input, RunStart(i), i - 1)

----------------------------------------------------------------------------
(* C16.  When the end of input arrives inside a string literal, the scan   *)
(* is Done without a lexical error and the text buffered since the opening *)
(* quote is emitted as a String token before EndOfProgram.                 *)

C16_UnterminatedStringEmitted ==
    (pc = "extract" /\ LastFeed.before = "HaveStringStart") =>
        /\ LastFeed.result = "Done"
        /\ Len(tokens) >= 2
        /\ tokens[Len(tokens) - 1] = TokString(string)
        /\ tokens[Len(tokens)] = EndOfProgram

----------------------------------------------------------------------------
(* C17.  When the end of input arrives with a pending one-byte operator    *)
(* it is flushed before EndOfProgram, exactly once: a trailing `=` gives   *)
(* Assign, a trailing `-` gives Minus, a trailing `/` gives Divide.        *)

PendingOperators ==
    {[state |-> "HaveCharEqual", text |-> T(<<"=">>), token |-> Tok("Assign")],
     [state |-> "HaveCharHyphen", text |-> T(<<"-">>), token |-> Tok("Minus")],
     [state |-> "HaveCharForwardSlash", text |-> T(<<"/">>),
      token |-> Tok("Divide")]}

C17_PendingOperatorFlushed ==
    (pc = "extract") =>
        \A o \in PendingOperators :
            /\ LastFeed.before = o.state =>
                  /\ Emitted(Len(log)) = <<o.token>>
                  /\ tokens = SubSeq(tokens, 1, Len(tokens) - 2)
                                  \o <<o.token, EndOfProgram>>
                  /\ LastFeed.ntokens = Len(tokens) - 1
            /\ input = o.text => tokens = <<o.token, EndOfProgram>>

C17_Witness ==
    /\ pc = "extract"
    /\ input = T(<<"1", "-">>)
    /\ tokens = <<TokNumber(Isize(1)), Tok("Minus"), EndOfProgram>>

----------------------------------------------------------------------------
\* process_string has ended in a panic of the parser
Panicked == pc = "done" /\ program # None /\ ~program[1].ok

\* the tokens the parser has consumed
Consumed == SubSeq(program[1].s.tokens, 1, program[1].s.current)

----------------------------------------------------------------------------
(* C18.  As the test variable_definition asserts: `let var_1;`,            *)
(* `let var_2 = 47;`, `let var_3: int;`, `let var_4: int = 23;` scanned,   *)
(* extracted and parsed give a Program with exactly one VariableDefinition *)
(* of that name, type and value.                                           *)

LetCases ==
    {[text |-> LetPlain, name |-> T(<<"v", "a", "r", "_", "1">>),
      type |-> None, value |-> None],
     [text |-> LetInit, name |-> T(<<"v", "a", "r", "_", "2">>),
      type |-> None, value |-> Some(ExprNumber(Isize(47)))],
     [text |-> LetTyped, name |-> T(<<"v", "a", "r", "_", "3">>),
      type |-> Some(T(<<"i", "n", "t">>)), value |-> None],
     [text |-> LetTypedInit, name |-> T(<<"v", "a", "r", "_", "4">>),
      type |-> Some(T(<<"i", "n", "t">>)), value |-> Some(ExprNumber(Isize(23)))]}

C18_LetIsVariableDefinition ==
    \A case \in LetCases :
        (pc = "done" /\ input = case.text) =>
            Parsed(<<VariableDefinition(case.name, case.type, case.value)>>)

----------------------------------------------------------------------------
(* C19.  Balance: when parse_program returns a Program, the round and the  *)
(* curly brackets of the consumed tokens are balanced and properly nested; *)
(* `var x = (1 + 2;` is a syntax error raised at the `;`, where `)` was    *)
(* expected.                                                               *)

Opening == {"LeftRoundBracket", "LeftCurlyBracket"}
Closing == {"RightRoundBracket", "RightCurlyBracket"}
Closes(open, close) ==
    \/ open = "LeftRoundBracket" /\ close = "RightRoundBracket"
    \/ open = "LeftCurlyBracket" /\ close = "RightCurlyBracket"

\* the brackets of toks from index i on close the open brackets of `stack`
\* and each other
RECURSIVE BalancedFrom(_, _, _)
BalancedFrom(toks, i, stack) ==
    IF i > Len(toks) THEN stack = <<>>
    ELSE IF toks[i].kind \in Opening
         THEN BalancedFrom(toks, i + 1, Append(stack, toks[i].kind))
    ELSE IF toks[i].kind \in Closing
         THEN /\ stack # <<>>
              /\ Closes(stack[Len(stack)], toks[i].kind)
              /\ BalancedFrom(toks, i + 1, SubSeq(stack, 1, Len(stack) - 1))
    ELSE BalancedFrom(toks, i + 1, stack)

Balanced(toks) == BalancedFrom(toks, 1, <<>>)

C19_BracketsBalanced ==
    /\ (pc = "done" /\ program[1].ok) => Balanced(Consumed)
    /\ (pc = "done" /\ input = UnclosedGroup) =>
          /\ ~program[1].ok
          /\ program[1].err = "Expected \")\"!"
          /\ program[1].s.tokens[program[1].s.current].kind = "EndOfStatement"

----------------------------------------------------------------------------
(* C20.  Every FunctionCall the parser builds has as callee the text of an *)
(* Identifier token immediately followed by `(`; an Identifier token not   *)
(* followed by `(` yields an Identifier expression; no FunctionCall has a  *)
(* parenthesised or otherwise complex callee.                              *)

Name(is_call, name) == [call |-> is_call, name |-> name]

\* the names in an expression, in source order: the callee of each
\* FunctionCall (call = TRUE) and each Identifier expression (call = FALSE)
RECURSIVE NamesOfExpression(_)
RECURSIVE NamesOfExpressions(_)
NamesOfExpression(e) ==
    CASE e.expr = "Identifier" -> <<Name(FALSE, e.name)>>
      [] e.expr = "BinaryOperation" ->
            NamesOfExpression(e.operand_left)
                \o NamesOfExpression(e.operand_right)
      [] e.expr = "FunctionCall" ->
            <<Name(TRUE, e.callee_name)>> \o NamesOfExpressions(e.arguments)
      [] OTHER -> <<>>

NamesOfExpressions(es) ==
    IF es = <<>> THEN <<>>
    ELSE NamesOfExpression(Head(es)) \o NamesOfExpressions(Tail(es))

RECURSIVE NamesOfStatements(_)
NamesOfStatement(st) ==
    CASE st.stmt \in {"Expression", "Return"} ->
            NamesOfExpression(st.expression)
      [] st.stmt \in {"Block", "FunctionDefinition"} ->
            NamesOfStatements(st.statements)
      [] st.stmt = "VariableDefinition" ->
            IF st.value = None THEN <<>> ELSE NamesOfExpression(st.value[1])

NamesOfStatements(sts) ==
    IF sts = <<>> THEN <<>>
    ELSE NamesOfStatement(Head(sts)) \o NamesOfStatements(Tail(sts))

\* the Identifier tokens from index i on, each with whether `(` follows it
RECURSIVE NamesOfTokens(_, _)
NamesOfTokens(toks, i) ==
    IF i > Len(toks) THEN <<>>
    ELSE IF toks[i].kind = "Identifier"
         THEN <<Name(i < Len(toks) /\ toks[i + 1].kind = "LeftRoundBracket",
                     toks[i].text)>> \o NamesOfTokens(toks, i + 1)
    ELSE NamesOfTokens(toks, i + 1)

\* the Identifier tokens followed by `(` that do not name a definition
RECURSIVE CalleesOfTokens(_, _)
CalleesOfTokens(toks, i) ==
    IF i >= Len(toks) THEN <<>>
    ELSE IF /\ toks[i].kind = "Identifier"
            /\ toks[i + 1].kind = "LeftRoundBracket"
            /\ (i = 1 \/ toks[i - 1].kind # "Function")
         THEN <<toks[i].text>> \o CalleesOfTokens(toks, i + 1)
    ELSE CalleesOfTokens(toks, i + 1)

IsCall(n) == n.call
\* no definition in the tokens: every Identifier token is in an expression
OnlyExpressions(toks) ==
    \A i \in 1..Len(toks) :
        toks[i].kind \notin {"Function", "Variable", "VariableTypeIndicator",
                             "ReturnTypeIndicator"}

C20_CalleeIsBareIdentifier ==
    (pc = "done" /\ program[1].ok) =>
        LET names == NamesOfStatements(program[1].val.statements)
            calls == SelectSeq(names, IsCall)
        IN  /\ [k \in 1..Len(calls) |-> calls[k].name]
                   = CalleesOfTokens(Consumed, 1)
            /\ OnlyExpressions(Consumed) =>
                   names = NamesOfTokens(Consumed, 1)

C20_Witness ==
    /\ pc = "done"
    /\ input = CallSample
    /\ program[1].ok
    /\ NamesOfStatements(program[1].val.statements) =
           <<Name(TRUE, T(<<"f">>)), Name(FALSE, T(<<"a">>)),
             Name(TRUE, T(<<"g">>)), Name(FALSE, T(<<"b">>))>>

----------------------------------------------------------------------------
(* C21.  In a function call's argument list a trailing comma before `)`    *)
(* is a syntax error (`f(a,);` is not parsed), and the empty list `f()`    *)
(* gives a FunctionCall with zero arguments.                               *)

C21_CallTrailingCommaRejected ==
    /\ (pc = "done" /\ input = CallTrailingComma) =>
          /\ ~program[1].ok
          /\ program[1].s.tokens[program[1].s.current + 1].kind
                 = "RightRoundBracket"
    /\ (pc = "done" /\ input = CallNoArguments) =>
          Parsed(<<ExpressionStatement(FunctionCall(T(<<"f">>), <<>>))>>)

\* the parser has panicked on the `)` after the comma
C21_Witness ==
    /\ Panicked
    /\ input = CallTrailingComma
    /\ program[1].err = "Expected expression!"
    /\ program[1].s.current = 4

----------------------------------------------------------------------------
(* C22.  Syntax errors in a variable definition are fatal where they are   *)
(* detected: `var = 1;` is rejected at `=` (identifier expected),          *)
(* `var x int;` at `int` (`;` or `=` expected); the parser returns no      *)
(* Program and consumes no token after that one.                           *)

C22_VariableDefinitionErrors ==
    /\ (pc = "done" /\ input = VarNoName) =>
          /\ ~program[1].ok
          /\ program[1].err = "Expected identifier!"
          /\ program[1].s.current = 2
          /\ program[1].s.tokens[2].kind = "Assign"
    /\ (pc = "done" /\ input = VarNoSeparator) =>
          /\ ~program[1].ok
          /\ program[1].s.current = 3
          /\ program[1].s.tokens[3] = TokIdentifier(T(<<"i", "n", "t">>))

----------------------------------------------------------------------------
(* C24.  consume() returns the token at the cursor and advances the cursor *)
(* by exactly one when the cursor is within the tokens; past the end it    *)
(* returns nothing and leaves the cursor; a peek() just before a consume() *)
(* returns the token that the consume() returns.                           *)

C24_ConsumeAdvancesByOne ==
    (call.op = "consume") =>
        LET b == call.before[1] IN
        /\ b.current < Len(b.tokens) =>
              /\ call.token = Some(b.tokens[b.current + 1])
              /\ stream[1].current = b.current + 1
        /\ b.current >= Len(b.tokens) =>
              /\ call.token = None
              /\ stream[1].current = b.current
        /\ call.token = peek(b)

C24_Witness ==
    /\ call.op = "consume"
    /\ call.token # None
    /\ call.before[1].current > 0
    /\ stream[1].current = call.before[1].current + 1

----------------------------------------------------------------------------
(* C27.  In the state reached after `!`, the byte `=` emits exactly one    *)
(* NotEqual token and returns the FSM to Start; any other byte, and the    *)
(* end of input, give the step result InvalidByte and emit no token.       *)

C27_ExclamationMarkNeedsEqual ==
    (pc = "extract") =>
        \A i \in 1..Len(log) :
            (log[i].before = "HaveCharExclamationMark") =>
                IF log[i].byte = Some(B("="))
                THEN /\ Emitted(i) = <<Tok("NotEqual")>>
                     /\ log[i].after = "Start"
                     /\ log[i].result = "Continue"
                ELSE /\ log[i].result = "InvalidByte"
                     /\ Emitted(i) = <<>>

\* `a ! b;`: the space after `!` was answered InvalidByte
C27_Witness ==
    /\ pc = "extract"
    /\ input = ExclamationSample
    /\ log[4].before = "HaveCharExclamationMark"
    /\ log[4].result = "InvalidByte"
    /\ \A n \in 1..Len(tokens) : tokens[n].kind # "NotEqual"

----------------------------------------------------------------------------
(* C28.  `{ statement* }` parses to a Block of the enclosed statements in  *)
(* source order; blocks nest, `{}` is a Block with no statements, and a    *)
(* block not closed by `}` before EndOfProgram is a syntax error.          *)

ValueAssign(num) ==
    ExpressionStatement(
        BinaryOperation("Assign", ExprIdentifier(T(<<"v", "a", "l", "u", "e">>)),
                        ExprNumber(Isize(num))))

C28_BlockStatement ==
    /\ (pc = "done" /\ input = BlockSample) =>
          Parsed(<<Block(<<ValueAssign(45),
                           Block(<<ValueAssign(33)>>),
                           Block(<<>>)>>)>>)
    /\ (pc = "done" /\ input = EmptyBlock) => Parsed(<<Block(<<>>)>>)
    /\ (pc = "done" /\ input = DeepBlock) =>
          Parsed(<<Block(<<Block(<<Block(<<>>)>>)>>)>>)
    /\ (pc = "done" /\ input = NestedBlocks) =>
          Parsed(<<Block(<<ExpressionStatement(ExprIdentifier(T(<<"a">>))),
                           Block(<<>>)>>)>>)
    /\ (pc = "done" /\ input = UnclosedBlock) => ~program[1].ok

C28_Witness ==
    /\ pc = "done"
    /\ input = BlockSample
    /\ program[1].ok
    /\ Len(program[1].val.statements[1].statements) = 3
    /\ program[1].val.statements[1].statements[3] = Block(<<>>)

----------------------------------------------------------------------------
(* C29.  Two scan() calls on one Tokenizer without an extract() between    *)
(* them are independent: when a scan() returns the FSM is in Start with no *)
(* pending lexeme, and the tokens are those of each text scanned alone,    *)
(* one text after the other.                                               *)

RECURSIVE TokensOfEach(_)
TokensOfEach(texts) ==
    IF texts = <<>> THEN <<>>
    ELSE TokensOf(Head(texts)) \o TokensOfEach(Tail(texts))

C29_ScansIndependent ==
    (scanned # <<>>) =>
        /\ state = "Start"
        /\ tokens = TokensOfEach(scanned)

----------------------------------------------------------------------------
(* C23.  A String token's payload is exactly the bytes between the opening *)
(* `"` and the closing `"`, copied verbatim (a backslash and the byte      *)
(* after it are both in the payload); inside the literal only CR, LF and   *)
(* the bytes 0x20..0x7E other than `"` are accepted.                       *)

\* the feed() of the `"` that opened the literal which the i-th feed() is in
StringStart(i) ==
    CHOOSE k \in 1..(i - 1) :
        /\ log[k].before # "HaveStringStart"
        /\ \A j \in k..(i - 1) : log[j].after = "HaveStringStart"

AcceptedInString(byte) ==
    byte \in {B("\r"), B("\n")} \cup ((32..126) \ {B("\"")})

C23_StringPayloadVerbatim ==
    (pc = "extract") =>
        /\ \A i \in 2..Len(input) :
              (log[i].before = "HaveStringStart") =>
                  IF input[i] = B("\"")
                  THEN Emitted(i)
                          = <<TokString(SubSeq(input, StringStart(i) + 1, i - 1))>>
                  ELSE /\ Emitted(i) = <<>>
                       /\ (log[i].result = "Continue")
                              <=> AcceptedInString(input[i])
        /\ input = StringEscapes =>
              tokens = <<TokString(T(<<"a", "\\", "n">>)),
                         Tok("EndOfStatement"), EndOfProgram>>

----------------------------------------------------------------------------
(* C25.  Push-back: when an identifier run, a number run, or a pending     *)
(* `-`, `=` or `/` is ended by a byte that does not extend it, the pending *)
(* token is emitted first and the same byte is then processed in Start, so *)
(* the byte still yields its own token or starts its own lexeme: `a+b;`    *)
(* gives Identifier(a), Add, Identifier(b), EndOfStatement.                *)

Extends(fsm_state, byte) ==
    CASE fsm_state = "HaveIdentifierChar" -> is_identifier_other_byte(byte)
      [] fsm_state = "HaveNumericChar" -> is_number_byte(byte)
      [] fsm_state = "HaveCharHyphen" -> byte = B(">")
      [] fsm_state = "HaveCharEqual" -> byte = B("=")
      [] fsm_state = "HaveCharForwardSlash" -> byte \in {B("/"), B("*")}
      [] OTHER -> TRUE

PendingKinds(fsm_state) ==
    CASE fsm_state = "HaveIdentifierChar" ->
             {"Identifier", "Variable", "Function", "Return"}
      [] fsm_state = "HaveNumericChar" -> {"Number"}
      [] fsm_state = "HaveCharHyphen" -> {"Minus"}
      [] fsm_state = "HaveCharEqual" -> {"Assign"}
      [] fsm_state = "HaveCharForwardSlash" -> {"Divide"}

C25_PushBack ==
    (pc = "extract") =>
        /\ \A i \in 2..Len(input) :
              (/\ log[i].before \in PendingLexeme
               /\ ~Extends(log[i].before, input[i])) =>
                  LET alone == feed(NewTokenizer, Some(input[i])) IN
                  /\ log[i].steps = 2
                  /\ Emitted(i) # <<>>
                  /\ Emitted(i)[1].kind \in PendingKinds(log[i].before)
                  /\ Tail(Emitted(i)) = alone.t.tokens
                  /\ log[i].after = alone.t.state
                  /\ log[i].result = alone.result
        /\ input = PushBackSample =>
              tokens = <<TokIdentifier(T(<<"a">>)), Tok("Add"),
                         TokIdentifier(T(<<"b">>)), Tok("EndOfStatement"),
                         EndOfProgram>>
        /\ input = PushBackOperators =>
              tokens = <<TokNumber(Isize(1)), Tok("Minus"), TokIdentifier(T(<<"a">>)),
                         Tok("Assign"), TokIdentifier(T(<<"b">>)), Tok("Divide"),
                         TokNumber(Isize(2)), Tok("EndOfStatement"), EndOfProgram>>

\* `a+b;`: the `+` ended the run of `a` and gave its own token in one feed()
C25_Witness ==
    /\ pc = "extract"
    /\ input = PushBackSample
    /\ log[2].before = "HaveIdentifierChar"
    /\ log[2].steps = 2
    /\ Emitted(2) = <<TokIdentifier(T(<<"a">>)), Tok("Add")>>

----------------------------------------------------------------------------
(* C26.  For every digit run, whatever its length, the payload of the      *)
(* Number token is the decimal value of the run, accumulated as            *)
(* value = value*10 + digit from the first digit on, and it is never       *)
(* negative; a leading `-` is a separate Minus token.                      *)

\* the first byte of the digit run that the i-th feed() ends
DigitRunStart(i) ==
    CHOOSE k \in 1..(i - 1) :
        /\ log[k].before # "HaveNumericChar" \/ log[k].steps > 1
        /\ \A j \in k..(i - 1) : log[j].after = "HaveNumericChar"
        /\ \A j \in (k + 1)..(i - 1) :
              log[j].before = "HaveNumericChar" /\ log[j].steps = 1

\* the decimal value of a digit run, in words without a bound on the value
RECURSIVE DecimalValueFrom(_, _)
DecimalValueFrom(digits, words) ==
    IF digits = <<>> THEN words
    ELSE DecimalValueFrom(Tail(digits), MulTenAdd(words, Head(digits) - B("0")))

DecimalValue(digits) ==
    DecimalValueFrom(digits, <<0, 0, 0, 0, 0, 0>>)

C26_NumberIsDecimalValue ==
    /\ pc # "aborted"
    /\ (pc = "extract") =>
          /\ \A i \in 2..Len(input) :
                (log[i].before = "HaveNumericChar" /\ log[i].steps = 2) =>
                    /\ Emitted(i) # <<>>
                    /\ Emitted(i)[1].kind = "Number"
                    /\ ~IsNegative(Emitted(i)[1].num)
                    /\ Emitted(i)[1].num \o <<0, 0>>
                           = DecimalValue(SubSeq(input, DigitRunStart(i), i - 1))
          /\ input = NegativeLiteral =>
                tokens = <<Tok("Minus"), TokNumber(Isize(5)),
                           Tok("EndOfStatement"), EndOfProgram>>

----------------------------------------------------------------------------
(* Parser::parse_program on any token stream, one turn of its while loop   *)
(* at a time.  While pc = "parsing", program holds the statements pushed   *)
(* so far.  The streams are the tokens of the sample programs, cut off     *)
(* after any number of tokens (so with and without EndOfProgram), token    *)
(* streams with Token::Let, and every short sequence of ParserTokens.      *)

MaxTokens == 3

ParserTokens ==
    {TokIdentifier(T(<<"a">>)), Tok("Let"), Tok("Function"), Tok("Return"),
     Tok("LeftRoundBracket"), Tok("RightRoundBracket"),
     Tok("LeftCurlyBracket"), Tok("RightCurlyBracket"), Tok("Comma"),
     Tok("EndOfStatement"), Tok("Assign"), EndOfProgram}

\* let x: int = 1; let y; a = 1;
LetStream ==
    <<Tok("Let"), TokIdentifier(T(<<"x">>)), Tok("VariableTypeIndicator"),
      TokIdentifier(T(<<"i", "n", "t">>)), Tok("Assign"), TokNumber(Isize(1)),
      Tok("EndOfStatement"), Tok("Let"), TokIdentifier(T(<<"y">>)),
      Tok("EndOfStatement"), TokIdentifier(T(<<"a">>)), Tok("Assign"),
      TokNumber(Isize(1)), Tok("EndOfStatement"), EndOfProgram>>

\* a = 1; then EndOfProgram, then more tokens and a second EndOfProgram
TwoProgramsStream ==
    <<TokIdentifier(T(<<"a">>)), Tok("Assign"), TokNumber(Isize(1)),
      Tok("EndOfStatement"), EndOfProgram, TokIdentifier(T(<<"b">>)),
      Tok("EndOfStatement"), EndOfProgram>>

Prefixes(toks) == {SubSeq(toks, 1, n) : n \in 0..Len(toks)}

ParserStreams ==
    UNION {Prefixes(TokensOf(text)) : text \in Samples}
        \cup Prefixes(LetStream)
        \cup Prefixes(TwoProgramsStream)
        \cup UNION {[1..n -> ParserTokens] : n \in 0..MaxTokens}

InitParser ==
    /\ SetSelfInit
    /\ scanned = <<>>
    /\ fed = 0
    /\ log = <<>>
    /\ source = <<>>
    /\ input = <<>>
    /\ call = NoCall
    /\ reachedEnd = FALSE
    /\ \E toks \in ParserStreams :
          /\ stream = Some(NewStream(toks))
          /\ program = Some(Ok(NewStream(toks), Program(<<>>)))
          /\ turns = [c \in 0..Len(toks) |->
                         Call("parse_statement",
                              [NewStream(toks) EXCEPT !.current = c], <<>>)]
    /\ pc = "parsing"

ParserFrame == UNCHANGED <<tokenizerVars, historyVars, input, callVars, turns>>

\* one turn of the while loop: parse_statement (its outcome at this cursor
\* is in turns), then push the statement or unwind with the panic
ParseStatement ==
    /\ pc = "parsing"
    /\ ~OptionTokenEq(peek(stream[1]), EndOfProgram)
    /\ LET r == turns[stream[1].current] IN
       /\ stream' = Some(r.s)
       /\ IF r.ok
          THEN /\ program' = Some(Ok(r.s, Program(Append(program[1].val.statements,
                                                         r.val))))
               /\ pc' = "parsing"
          ELSE /\ program' = Some(r)
               /\ pc' = "panicked"
    /\ ParserFrame

\* the loop condition fails: peek() is EndOfProgram
ParseEnd ==
    /\ pc = "parsing"
    /\ OptionTokenEq(peek(stream[1]), EndOfProgram)
    /\ pc' = "parsed"
    /\ UNCHANGED <<stream, program>>
    /\ ParserFrame

NextParser == ParseStatement \/ ParseEnd

\* the parser is one thread that runs until it returns or panics
SpecParser == InitParser /\ [][NextParser]_vars /\ WF_vars(NextParser)

----------------------------------------------------------------------------
(* C30.  parse_program terminates on every finite token stream, with or    *)
(* without an EndOfProgram token: every turn of every parser loop          *)
(* (top-level statements, block and function body, parameter list,         *)
(* argument list, operator folds) consumes at least one token or halts     *)
(* with a syntax error, so no loop goes on without advancing the cursor.   *)

\* what the turns of the loops call: a call that returns has consumed a token
LoopCalls ==
    {"parse_statement", "parse_function_parameter", "parse_expression",
     "parse_assignment_operand", "parse_comparison_operand", "parse_term",
     "parse_factor"}

\* at every position of the stream each call of a loop turn either panics or
\* returns with the cursor moved on, within the tokens
LoopTurnsAdvance ==
    (pc = "parsing" /\ stream[1].current = 0) =>
        \A c \in 0..Len(stream[1].tokens) : \A fn \in LoopCalls :
            LET s == [stream[1] EXCEPT !.current = c]
                r == Call(fn, s, <<>>)
            IN  /\ r.s.current >= c
                /\ r.s.current <= Len(s.tokens)
                /\ r.ok => r.s.current > c

\* what the loop has returned or panicked with is what parse_program gives
SameAsParseProgram ==
    (pc \in {"parsed", "panicked"}) =>
        LET r == parse_program(NewStream(stream[1].tokens)) IN
        /\ r.ok = (pc = "parsed")
        /\ r.s = stream[1]
        /\ r.ok => r.val = program[1].val

\* a turn of the top-level loop that goes on has consumed a token
StatementAdvances ==
    (pc = "parsing" /\ pc' = "parsing") => stream'[1].current > stream[1].current

C30_ParserTerminates ==
    /\ []LoopTurnsAdvance
    /\ []SameAsParseProgram
    /\ [][StatementAdvances]_vars
    /\ <>(pc \in {"parsed", "panicked"})

\* a stream without EndOfProgram: two statements parsed, then the panic at
\* the end of the tokens
C30_Witness ==
    /\ pc = "panicked"
    /\ \A n \in 1..Len(stream[1].tokens) : stream[1].tokens[n] # EndOfProgram
    /\ stream[1].tokens = SubSeq(LetStream, 1, 10)
    /\ stream[1].current = 10

----------------------------------------------------------------------------
(* Tokenizer::feed, one fsm_proc call at a time, on a Tokenizer in any     *)
(* state of the FSM.  The Tokenizer has been fed one of FedTexts, which    *)
(* bring it into each state, and is then fed up to MaxFeeds bytes or ends  *)
(* of input.  `input` is the Option<u8> being fed, `log` has one entry per *)
(* fsm_proc call of the feed() in progress, and `call` holds the Tokenizer *)
(* as it was when feed() was called.                                       *)

MaxFeeds == 2

FedTexts ==
    {T(<<>>), T(<<"=">>), T(<<"!">>), T(<<"-">>), T(<<"v", "a">>),
     T(<<"1", "2">>), T(<<"\"", "a">>), T(<<"/">>), T(<<"/", "/">>),
     T(<<"/", "*">>), T(<<"/", "*", "*">>),
     SubSeq(MaxNumber, 1, Len(MaxNumber) - 1)}

FedBytes ==
    {Some(B(c)) : c \in {"a", "1", "\"", "/", "*", "=", "!", "-", ">", "\n",
                         "#"}} \cup {None}

\* the Tokenizer after feed() of each byte of text
RECURSIVE FeedAll(_, _)
FeedAll(t, text) ==
    IF text = <<>> THEN t ELSE FeedAll(feed(t, Some(Head(text))).t, Tail(text))

InitFeed ==
    /\ \E text \in FedTexts :
          LET t == FeedAll(NewTokenizer, text) IN
          /\ state = t.state
          /\ tokens = t.tokens
          /\ identifier = t.identifier
          /\ number = t.number
          /\ string = t.string
          /\ scanned = <<text>>
    /\ fed = 0
    /\ log = <<>>
    /\ stream = None
    /\ source = <<>>
    /\ program = None
    /\ pc = "idle"
    /\ input = None
    /\ call = NoCall
    /\ reachedEnd = FALSE
    /\ turns = <<>>

FeedFrame == UNCHANGED <<scanned, stream, source, program, reachedEnd, turns>>

\* tokenizer.feed(byte) is called
FeedCall ==
    /\ pc = "idle"
    /\ fed < MaxFeeds
    /\ \E byte \in FedBytes : input' = byte
    /\ fed' = fed + 1
    /\ log' = <<>>
    /\ call' = [op |-> "feed", arg |-> None, token |-> None, matched |-> FALSE,
                before |-> Some(Self)]
    /\ pc' = "feeding"
    /\ UNCHANGED tokenizerVars
    /\ FeedFrame

\* one turn of the loop of feed(): fsm_proc, then go on if it answered Again.
\* In a build with overflow checks the step panics when the number leaves
\* the range of isize.
FsmStep ==
    /\ pc = "feeding"
    /\ \E overflow_checks \in
            IF input # None /\ Overflows(Self, input[1]) THEN BOOLEAN ELSE {FALSE} :
          IF overflow_checks
          THEN /\ pc' = "aborted"
               /\ UNCHANGED <<tokenizerVars, log>>
          ELSE LET r == fsm_proc(Self, input) IN
               /\ SetSelf(r.t)
               /\ log' = Append(log,
                                LogEntry(Self, input,
                                         [t |-> r.t, result |-> r.result,
                                          steps |-> Len(log) + 1]))
               /\ pc' = IF r.result = "Again" THEN "feeding" ELSE "idle"
    /\ UNCHANGED <<fed, input, call>>
    /\ FeedFrame

NextFeed == FeedCall \/ FsmStep

\* feed() is a loop on one thread: a turn that can be taken is taken
SpecFeed == InitFeed /\ [][NextFeed]_vars /\ WF_vars(FsmStep)

----------------------------------------------------------------------------
(* C31.  feed() terminates for every byte, and for the end of input, in    *)
(* every state of the FSM: a step that answers Again leaves the FSM in     *)
(* Start and a step in Start never answers Again, so feed() makes at most  *)
(* two fsm_proc calls and pushes at most two tokens.                       *)

FsmStates ==
    {"Start", "HaveCharEqual", "HaveCharExclamationMark", "HaveCharHyphen",
     "HaveIdentifierChar", "HaveNumericChar", "HaveStringStart",
     "HaveCharForwardSlash", "HaveSingleLineCommentStart",
     "HaveMultiLineCommentStart", "HaveMultiLineCommentEndCharAsterisk"}

FeedStepsBounded ==
    /\ state \in FsmStates
    /\ Len(log) <= 2
    /\ pc = "feeding" => Len(log) <= 1
    /\ \A i \in 1..Len(log) :
          /\ log[i].result = "Again" => log[i].after = "Start"
          /\ log[i].before = "Start" => log[i].result # "Again"
    /\ call.op = "feed" =>
          /\ Len(tokens) >= Len(call.before[1].tokens)
          /\ Len(tokens) <= Len(call.before[1].tokens) + 2
          /\ SubSeq(tokens, 1, Len(call.before[1].tokens))
                 = call.before[1].tokens

\* the feed() that has returned did what the loop of feed() does
FeedReturnsAsFeedLoop ==
    (pc = "idle" /\ call.op = "feed") =>
        LET f == feed(call.before[1], input) IN
        /\ Self = f.t
        /\ Len(log) = f.steps
        /\ log[Len(log)].result = f.result

C31_FeedTerminates ==
    /\ []FeedStepsBounded
    /\ []FeedReturnsAsFeedLoop
    /\ (pc = "feeding") ~> (pc \in {"idle", "aborted"})

\* a feed() of two fsm_proc calls and two tokens: the byte `*` ends the
\* identifier and is itself the token Times
C31_Witness ==
    /\ pc = "idle"
    /\ input = Some(B("*"))
    /\ Len(log) = 2
    /\ log[1].before = "HaveIdentifierChar"
    /\ log[1].result = "Again"
    /\ log[2].before = "Start"
    /\ Len(tokens) = Len(call.before[1].tokens) + 2

----------------------------------------------------------------------------
(* C32.  Whenever parse_program returns a Program, the cursor rests on the *)
(* first EndOfProgram token, which is not consumed, and every token before *)
(* it has been consumed, once and in order: the cursor only moves forward  *)
(* over the same tokens and no statement takes in an EndOfProgram.         *)

CursorOnFirstEndOfProgram ==
    /\ (pc = "parsed") =>
          LET s == stream[1] IN
          /\ program[1].ok
          /\ program[1].s = s
          /\ s.current < Len(s.tokens)
          /\ s.tokens[s.current + 1] = EndOfProgram
          /\ \A n \in 1..s.current : s.tokens[n] # EndOfProgram
    /\ (pc = "parsing") =>
          \A c \in DOMAIN turns :
              /\ turns[c].s.tokens = stream[1].tokens
              /\ turns[c].ok =>
                    \A n \in (c + 1)..turns[c].s.current :
                        stream[1].tokens[n] # EndOfProgram

CursorMovesForward ==
    /\ stream'[1].tokens = stream[1].tokens
    /\ stream'[1].current >= stream[1].current
    /\ Len(program'[1].s.tokens) = Len(stream[1].tokens)

C32_ParsedUpToEndOfProgram ==
    /\ []CursorOnFirstEndOfProgram
    /\ [][CursorMovesForward]_vars

\* three statements parsed, the cursor on the EndOfProgram that ends the
\* tokens
C32_Witness ==
    /\ pc = "parsed"
    /\ stream[1].tokens = LetStream
    /\ stream[1].current = Len(LetStream) - 1
    /\ Len(program[1].val.statements) = 3

=============================================================================
